---- MODULE Spec2Model ----
(***************************************************************************)
(* State machine of the Embeddings Playground comparison table             *)
(* (client/src/components/text-comparison-table.tsx, the component that    *)
(* starts at line 775) together with its derived statistics, and of the    *)
(* other parts of the repository: ModelComparisonTable, the row-based      *)
(* table of distance-calculator.tsx, the server's endpoints and MemStorage.*)
(*                                                                         *)
(* Conventions                                                             *)
(*  - A distance or threshold is an integer counting units of 10^-5        *)
(*    (0.25 is 25000); rounding to 4 decimals is rounding to a multiple    *)
(*    of 10.                                                               *)
(*  - A JavaScript value that may be null is a sequence of length 0 or 1:  *)
(*    None is null, Some(x) is the number x.  A key that is missing from   *)
(*    an object is missing from the DOMAIN of the function modelling it.   *)
(*    The order of the keys of the distances object, which Object.keys     *)
(*    follows, is kept in distanceKeys.                                    *)
(*  - The arithmetic of the threshold and of toFixed is that of IEEE 754   *)
(*    doubles where a value lies half-way between two decimals.            *)
(*  - A model identifier is the sequence of its '-'-separated tokens, so   *)
(*    that the composite string keys `${i}-${i}-${model}` and the          *)
(*    operations on them (endsWith, split, join) are modelled token by     *)
(*    token rather than as opaque values.                                  *)
(*  - Row indices are 0-based as in the source; sequences are 1-based.     *)
(*  - A handler's state updates are one step, which commits a render; the  *)
(*    effect that recomputes the thresholds is a step of its own after     *)
(*    that commit, and runs before any other handler of the table.         *)
(***************************************************************************)
EXTENDS Integers, Sequences, FiniteSets, TLC

VARIABLES
    queryTexts,           \* useState<string[]>            (line 776)
    storedTexts,          \* useState<string[]>            (line 777)
    selectedModels,       \* slot -> model identifier      (line 778)
    distances,            \* key -> Some(d) | None         (line 784)
    distanceKeys,         \* Object.keys(distances): the keys in the order of their insertion
    loading,              \* key -> BOOLEAN                (line 785)
    isGenerating,         \* BOOLEAN                       (line 786)
    lastCalculatedState,  \* key -> [queryText, storedText, model] (line 789)
    relatedRows,          \* row index -> BOOLEAN          (line 792)
    optimalThresholds,    \* model -> Some(t) | None       (line 795)
    effectPending,        \* whether the effect of lines 838-841 has still to run on the render committed
    runs,                 \* the async loops in flight (generateComparisons, autoCalculateForModel)
    ops,                  \* number of user operations performed so far
    lastOp,               \* history: the handler that produced this state
    showPlot,             \* useState(false): whether the plot section is open (line 798)
    plotInput,            \* argument handed to calculateBoxPlotStats
    plotStats,            \* its result
    csvFile,              \* content of the CSV file last downloaded or chosen for upload
    request,              \* body of the request last posted to the server
    response,             \* the answer to it (for a distance request, with what the cosine utility does on the same vectors)
    modelRows,            \* ModelComparisonTable: useState<ModelRow[]>   (model-comparison-table.tsx 31)
    mutations,            \* ModelComparisonTable: the generate mutations in flight
    inputText,            \* ModelComparisonTable: the inputText prop
    calculatorRows,       \* distance-calculator.tsx: useState<TextRow[]> (line 226)
    calculatorModels,     \* distance-calculator.tsx: selectedModels, column -> model (line 229)
    calculatorGenerating, \* distance-calculator.tsx: isGenerating (line 234)
    calculatorRun,        \* distance-calculator.tsx: the generateComparisons call suspended at a request
    embeddings,           \* MemStorage.embeddings: id -> Embedding       (storage.ts 12)
    currentId,            \* MemStorage.currentId                         (storage.ts 13)
    handlers              \* the /api/embeddings/generate handlers suspended at their provider call

vars == <<queryTexts, storedTexts, selectedModels, distances, distanceKeys, loading, isGenerating,
          lastCalculatedState, relatedRows, optimalThresholds, effectPending, runs, ops, lastOp,
          showPlot, plotInput, plotStats, csvFile, request, response,
          modelRows, mutations, inputText, calculatorRows, calculatorModels, calculatorGenerating,
          calculatorRun, embeddings, currentId, handlers>>

plotVars == <<showPlot, plotInput, plotStats>>

fileVars == <<csvFile>>

serverVars == <<request, response>>

calculatorVars == <<calculatorModels, calculatorGenerating, calculatorRun>>

componentVars == <<modelRows, mutations, inputText, calculatorRows, calculatorVars>>

storageVars == <<embeddings, currentId, handlers>>

-----------------------------------------------------------------------------
(* Bounds of the model *)

MaxRows == 2
MaxOps == 3
MaxRuns == 2

\* texts a user types into a cell; " " is a whitespace-only text
TextValues == {" ", "b"}

\* rows a CSV file is parsed into (columns are trimmed by the parser)
CsvRowChoices ==
    { [queryText |-> "a", storedText |-> "b", related |-> TRUE],
      [queryText |-> "b", storedText |-> "a", related |-> FALSE] }

\* distances the distance endpoint answers with (0.25004)
DistResults == {25004}

\* distances of the tables the threshold computation is run on: 0.25004, 0.25005
\* and 0.25025; with the buffer the last two lie half-way
\* between two fourth decimals; the doubles take 0.25005 up and 0.25025 down
ThresholdDistances == {25004, 25005, 25025}

-----------------------------------------------------------------------------
(* Values *)

None == <<>>
Some(x) == <<x>>

EmptyMap == [x \in {} |-> x]

NoModel == <<"">>

Embedding3Small == <<"text", "embedding", "3", "small">>
Embedding3Large == <<"text", "embedding", "3", "large">>
EmbeddingAda002 == <<"text", "embedding", "ada", "002">>
BgeSmallEn == <<"BAAI/bge", "small", "en", "v1.5">>

MODELS == {Embedding3Small, Embedding3Large, EmbeddingAda002, BgeSmallEn}

\* the models the bounded runs select among
ModelChoices == {Embedding3Small, BgeSmallEn}

ModelKeys == <<"model1", "model2", "model3", "model4">>

\* the slots the bounded runs reassign
SlotChoices == {"model1", "model2"}

Trim(t) == IF t = " " THEN "" ELSE t

Max2(a, b) == IF a >= b THEN a ELSE b

\* `${queryIndex}-${storedIndex}-${model}` as its '-'-separated tokens
Key(queryIndex, storedIndex, model) ==
    <<ToString(queryIndex), ToString(storedIndex)>> \o model

\* key.endsWith(`-${model}`)
EndsWithModel(key, model) ==
    /\ Len(key) > Len(model)
    /\ SubSeq(key, Len(key) - Len(model) + 1, Len(key)) = model

\* parseInt(key.split('-')[0])
KeyRow(key) == CHOOSE i \in 0..MaxRows : ToString(i) = key[1]

\* key.split('-').slice(2).join('-')
KeyModel(key) == SubSeq(key, 3, Len(key))

\* Object.values(selectedModels).filter(Boolean)
activeModelsOf(sel) ==
    SelectSeq([k \in 1..Len(ModelKeys) |-> sel[ModelKeys[k]]], LAMBDA m : m # NoModel)

Range(s) == {s[k] : k \in 1..Len(s)}

Put(map, key, value) == [x \in DOMAIN map \cup {key} |-> IF x = key THEN value ELSE map[x]]

Without(map, keys) == [x \in DOMAIN map \ keys |-> map[x]]

\* Object.keys after { ...prev, [key]: value }: a key of prev keeps its place, a
\* new key comes last
keysAfterSet(keys, key) ==
    IF \E k \in 1..Len(keys) : keys[k] = key THEN keys ELSE Append(keys, key)

\* Object.keys after delete updated[key] of some keys: the others keep their order
keysAfterDelete(keys, dist) == SelectSeq(keys, LAMBDA key : key \in DOMAIN dist)

\* distance !== null && distance !== undefined
HasValue(dist, key) == key \in DOMAIN dist /\ dist[key] # None

-----------------------------------------------------------------------------
(* The other components at their construction *)

\* ModelComparisonTable: three rows without a model (model-comparison-table.tsx 31-35)
InitModelTable ==
    /\ modelRows = [k \in 1..3 |-> [id |-> ToString(k), model |-> NoModel,
                                    embedding |-> None, loading |-> FALSE]]
    /\ mutations = <<>>
    /\ inputText = ""

\* the row-based comparison table: one empty row (distance-calculator.tsx 226-228)
InitCalculator ==
    /\ calculatorRows = << [id |-> "1", queryText |-> <<>>, storedText |-> <<>>,
                            distances |-> EmptyMap, loading |-> EmptyMap] >>
    /\ calculatorModels = [column \in {"model1", "model2", "model3"} |-> NoModel]
    /\ calculatorGenerating = FALSE
    /\ calculatorRun = <<>>

\* new MemStorage() (storage.ts 15-18, 38), no request being served
InitStorage ==
    /\ embeddings = EmptyMap
    /\ currentId = 1
    /\ handlers = <<>>

-----------------------------------------------------------------------------
(* calculateOptimalThresholds and the effect that runs it *)

\* Math.min in place of Math.max
MinOf(S) == CHOOSE x \in S : \A y \in S : x <= y

\* Math.max(...relatedDistances)
MaxOf(S) == CHOOSE x \in S : \A y \in S : y <= x

\* rounding without the 0.001 buffer
RoundThreshold_NoBuffer(x) == ((x + 5) \div 10) * 10

\* (2^k * x) mod 10^5
RECURSIVE DoubleMod(_, _)
DoubleMod(x, k) == IF k = 0 THEN x ELSE DoubleMod((2 * x) % 100000, k - 1)

\* The numbers of the threshold computation are IEEE 754 doubles.  A double is
\* modelled by six limbs of 15 binary digits each: limb 1 is the whole part,
\* limbs 2..6 are the first 75 binary digits of the fraction.

\* the first k limbs of the fraction r / 10^5 (2^15 / 10^5 = 1024 / 3125)
RECURSIVE FractionLimbs(_, _)
FractionLimbs(r, k) ==
    IF k = 0 THEN <<>>
    ELSE <<(r * 1024) \div 3125>> \o FractionLimbs(((r * 1024) % 3125) * 32, k - 1)

\* what is left of the fraction r / 10^5 behind its first k limbs
RECURSIVE FractionRest(_, _)
FractionRest(r, k) == IF k = 0 THEN r ELSE FractionRest(((r * 1024) % 3125) * 32, k - 1)

\* the whole number written by the first n binary digits
RECURSIVE WholePart(_, _)
WholePart(bits, n) == IF n = 0 THEN 0 ELSE 2 * WholePart(bits, n - 1) + bits[n]

\* the result of an operation on doubles: the number with the given limbs,
\* followed by further non-zero digits when sticky, rounded to 53 significant
\* binary digits, to the nearest and on a tie to the even one
RoundToDouble(limbs, sticky) ==
    LET n == 15 * Len(limbs)
        bits == [i \in 1..n |-> (limbs[((i - 1) \div 15) + 1] \div 2^(14 - ((i - 1) % 15))) % 2]
        ones == { i \in 1..n : bits[i] = 1 }
    IN  IF ones = {} THEN limbs
        ELSE LET last == MinOf(ones) + 52
             IN  IF last >= n THEN limbs
                 ELSE LET below == sticky \/ \E i \in (last + 2)..n : bits[i] = 1
                          up == bits[last + 1] = 1 /\ (below \/ bits[last] = 1)
                          kept == [i \in 1..n |-> IF i <= last THEN bits[i] ELSE 0]
                          zero == MaxOf({ i \in 1..last : kept[i] = 0 })
                          rounded == IF up
                                     THEN [i \in 1..n |->
                                              IF i < zero THEN kept[i]
                                              ELSE IF i = zero THEN 1 ELSE 0]
                                     ELSE kept
                      IN  [j \in 1..Len(limbs) |->
                              WholePart(SubSeq(rounded, 15 * (j - 1) + 1, 15 * j), 15)]

\* the double nearest to x / 10^5: a number literal, or a distance received
DoubleOf(x) ==
    RoundToDouble(<<x \div 100000>> \o FractionLimbs(x % 100000, 5),
                  FractionRest(x % 100000, 5) # 0)

\* the limbs of the exact m * x + y, from limb j upwards
RECURSIVE MulAdd(_, _, _, _, _)
MulAdd(x, m, y, j, carry) ==
    IF j = 0 THEN <<>>
    ELSE MulAdd(x, m, y, j - 1, (x[j] * m + y[j] + carry) \div 32768)
             \o <<(x[j] * m + y[j] + carry) % 32768>>

\* Math.round((x + 0.001) * 10000) / 10000 for an x that, with the buffer, lies
\* half-way between two fourth decimals: the sum and the product are doubles, and
\* Math.round takes a half upwards
RoundHalfWay(x) ==
    LET sum == RoundToDouble(MulAdd(DoubleOf(x), 1, DoubleOf(100), 6, 0), FALSE)
        product == RoundToDouble(MulAdd(sum, 10000, <<0, 0, 0, 0, 0, 0>>, 6, 0), FALSE)
    IN  (product[1] + (IF product[2] >= 16384 THEN 1 ELSE 0)) * 10

\* the half-way distances that the bounded tables hold, each with its threshold,
\* computed once
HalfWayThresholds ==
    [x \in { d \in ThresholdDistances \cup DistResults : d % 10 = 5 } |-> RoundHalfWay(x)]

\* Math.round((x + 0.001) * 10000) / 10000.  For an x that does not end in 5 the
\* exact product is at least 0.1 away from a half, much farther than the error
\* of the doubles, and Math.round yields the rounding of the exact product.
RoundThreshold(x) ==
    IF x % 10 # 5 THEN ((x + 100 + 5) \div 10) * 10
    ELSE IF x \in DOMAIN HalfWayThresholds THEN HalfWayThresholds[x]
    ELSE RoundHalfWay(x)

\* the distances of all rows, whatever their label
relatedDistancesOf_AllRows(model, related, dist) ==
    { dist[key][1] : key \in { k \in DOMAIN dist : dist[k] # None /\ SubSeq(k, 3, Len(k)) = model } }

\* the relatedDistances array built for one model (lines 811-823)
relatedDistancesOf(model, related, dist) ==
    { dist[Key(i, i, model)][1] :
        i \in { j \in DOMAIN related : related[j] /\ HasValue(dist, Key(j, j, model)) } }

calculateOptimalThresholds(sel, related, dist) ==
    [model \in Range(activeModelsOf(sel)) |->
        LET relatedDistances == relatedDistancesOf(model, related, dist)
        IN  IF relatedDistances # {}
            THEN Some(RoundThreshold(MaxOf(relatedDistances)))
            ELSE None]

\* a handler has set distances, relatedRows or selectedModels: the render with
\* the new state is committed with the thresholds of the render before, and the
\* effect of lines 838-841 is pending
EffectScheduled ==
    /\ optimalThresholds' = optimalThresholds
    /\ effectPending' = TRUE

\* the committed render has no effect pending: what a handler or a resumed
\* loop finds, since React runs the pending effects before it renders again
EffectsFlushed == ~effectPending

\* useEffect(() => calculateOptimalThresholds(), [distances, relatedRows, selectedModels])
\* runs after the render is committed and sets optimalThresholds
ThresholdEffect ==
    /\ effectPending
    /\ optimalThresholds' = calculateOptimalThresholds(selectedModels, relatedRows, distances)
    /\ effectPending' = FALSE
    /\ UNCHANGED <<queryTexts, storedTexts, selectedModels, distances, distanceKeys, loading, isGenerating,
                   lastCalculatedState, relatedRows, runs, ops, lastOp, plotVars, fileVars,
                   serverVars, componentVars, storageVars>>

-----------------------------------------------------------------------------
(* generateDistanceForPair and the loops that call it *)

\* queryTexts[i]?.trim(), with undefined read as the (equally falsy) empty string
TextAt(texts, i) == IF i < Len(texts) THEN Trim(texts[i + 1]) ELSE ""

\* Lines 1173-1192: whether generateDistanceForPair(i, i, model) goes on to fetch,
\* evaluated on the state captured by the closure of the calling loop.
needsRecalculation(q, s, lcs, i, model) ==
    LET queryText == TextAt(q, i)
        storedText == TextAt(s, i)
        key == Key(i, i, model)
    IN  /\ queryText # "" /\ storedText # "" /\ model # NoModel
        /\ \/ key \notin DOMAIN lcs
           \/ lcs[key].queryText # queryText
           \/ lcs[key].storedText # storedText
           \/ lcs[key].model # model

\* one call of generateDistanceForPair that fetches, with the values it captured
WorkItem(q, s, i, model) ==
    [row |-> i, model |-> model, queryText |-> TextAt(q, i), storedText |-> TextAt(s, i)]

\* The calls the loop of generateComparisons (lines 1243-1252) makes that fetch, in
\* order.  The loop reads queryTexts, storedTexts, lastCalculatedState and
\* activeModels from the closure of the render in which it was started.
PlanFor(q, s, lcs, models) ==
    LET maxLength == Max2(Len(q), Len(s))
        n == Len(models)
        all == [k \in 1..(maxLength * n) |->
                   WorkItem(q, s, (k - 1) \div n, models[((k - 1) % n) + 1])]
    IN  SelectSeq(all, LAMBDA w : needsRecalculation(q, s, lcs, w.row, w.model))

ItemKey(w) == Key(w.row, w.row, w.model)

RemoveAt(seq, r) == [k \in 1..(Len(seq) - 1) |-> IF k < r THEN seq[k] ELSE seq[k + 1]]

\* A loop is started: the first fetching call sets its loading flag (line 1195)
\* and suspends at the query-embedding request.
StartRun(rs, kind, plan) ==
    IF plan = <<>> THEN rs
    ELSE Append(rs, [kind |-> kind, todo |-> plan, pc |-> "query", stale |-> FALSE])

StartLoading(ld, plan) ==
    IF plan = <<>> THEN ld ELSE Put(ld, ItemKey(Head(plan)), TRUE)

\* history: the slot of the call in flight has been invalidated since the call started
MarkStale(rs, hit(_)) ==
    [k \in 1..Len(rs) |-> IF hit(Head(rs[k].todo)) THEN [rs[k] EXCEPT !.stale = TRUE] ELSE rs[k]]

\* The `finally` of the call in flight (line 1223), then the loop goes on to its
\* next fetching call or ends (setIsGenerating(false) at line 1266).
Advance(r) ==
    LET run == runs[r]
        rest == Tail(run.todo)
        cleared == Put(loading, ItemKey(Head(run.todo)), FALSE)
    IN  /\ loading' = StartLoading(cleared, rest)
        /\ runs' = IF rest = <<>> THEN RemoveAt(runs, r)
                   ELSE [runs EXCEPT ![r] = [kind |-> run.kind, todo |-> rest,
                                             pc |-> "query", stale |-> FALSE]]
        /\ isGenerating' = IF rest = <<>> /\ run.kind = "gen" THEN FALSE ELSE isGenerating

\* the distance requested as soon as the query embedding is there
EmbeddingResolved_SkipsStored(r) ==
    /\ EffectsFlushed
    /\ r \in 1..Len(runs)
    /\ runs[r].pc \in {"query", "stored"}
    /\ runs' = [runs EXCEPT ![r].pc = "distance"]
    /\ lastOp' = [op |-> "embeddingResolved", cleared |-> 0]
    /\ UNCHANGED <<queryTexts, storedTexts, selectedModels, distances, distanceKeys, loading, isGenerating,
                   lastCalculatedState, relatedRows, optimalThresholds, effectPending, ops, plotVars, fileVars, serverVars,
                   componentVars, storageVars>>

\* an embedding request of the call in flight answers (lines 1199-1200)
EmbeddingResolved(r) ==
    /\ EffectsFlushed
    /\ r \in 1..Len(runs)
    /\ runs[r].pc \in {"query", "stored"}
    /\ runs' = [runs EXCEPT ![r].pc = IF runs[r].pc = "query" THEN "stored" ELSE "distance"]
    /\ lastOp' = [op |-> "embeddingResolved", cleared |-> 0]
    /\ UNCHANGED <<queryTexts, storedTexts, selectedModels, distances, distanceKeys, loading, isGenerating,
                   lastCalculatedState, relatedRows, optimalThresholds, effectPending, ops, plotVars, fileVars, serverVars,
                   componentVars, storageVars>>

\* a completion that sets the matrix to its own entry alone (no functional update)
DistanceResolved_Overwrite(r, d) ==
    /\ EffectsFlushed
    /\ r \in 1..Len(runs)
    /\ runs[r].pc = "distance"
    /\ LET w == Head(runs[r].todo)
       IN  /\ distances' = Put(EmptyMap, ItemKey(w), Some(d))
           /\ distanceKeys' = <<ItemKey(w)>>
           /\ lastCalculatedState' =
                  Put(lastCalculatedState, ItemKey(w),
                      [queryText |-> w.queryText, storedText |-> w.storedText, model |-> w.model])
    /\ Advance(r)
    /\ lastOp' = [op |-> "distanceResolved", cleared |-> 0]
    /\ UNCHANGED <<queryTexts, storedTexts, selectedModels, relatedRows, ops, plotVars, fileVars, serverVars,
                   componentVars, storageVars>>
    /\ EffectScheduled

\* the distance request answers: lines 1208-1214, then the finally
DistanceResolved(r, d) ==
    /\ EffectsFlushed
    /\ r \in 1..Len(runs)
    /\ runs[r].pc = "distance"
    /\ LET w == Head(runs[r].todo)
       IN  /\ distances' = Put(distances, ItemKey(w), Some(d))
           /\ distanceKeys' = keysAfterSet(distanceKeys, ItemKey(w))
           /\ lastCalculatedState' =
                  Put(lastCalculatedState, ItemKey(w),
                      [queryText |-> w.queryText, storedText |-> w.storedText, model |-> w.model])
    /\ Advance(r)
    /\ lastOp' = [op |-> "distanceResolved", cleared |-> 0]
    /\ UNCHANGED <<queryTexts, storedTexts, selectedModels, relatedRows, ops, plotVars, fileVars, serverVars,
                   componentVars, storageVars>>
    /\ EffectScheduled

\* a failure that leaves generateDistanceForPair and ends the calling loop
RequestFailed_EndsRun(r) ==
    /\ EffectsFlushed
    /\ r \in 1..Len(runs)
    /\ loading' = Put(loading, ItemKey(Head(runs[r].todo)), FALSE)
    /\ runs' = RemoveAt(runs, r)
    /\ isGenerating' = IF runs[r].kind = "gen" THEN FALSE ELSE isGenerating
    /\ lastOp' = [op |-> "requestFailed", cleared |-> 0]
    /\ UNCHANGED <<queryTexts, storedTexts, selectedModels, distances, distanceKeys, lastCalculatedState,
                   relatedRows, optimalThresholds, effectPending, ops, plotVars, fileVars, serverVars,
                   componentVars, storageVars>>

\* a failure caught without the finally: the loading flag stays set
RequestFailed_KeepsLoading(r) ==
    /\ EffectsFlushed
    /\ r \in 1..Len(runs)
    /\ LET rest == Tail(runs[r].todo)
       IN  /\ loading' = StartLoading(loading, rest)
           /\ runs' = IF rest = <<>> THEN RemoveAt(runs, r)
                      ELSE [runs EXCEPT ![r] = [kind |-> runs[r].kind, todo |-> rest,
                                                pc |-> "query", stale |-> FALSE]]
           /\ isGenerating' = IF rest = <<>> /\ runs[r].kind = "gen" THEN FALSE ELSE isGenerating
    /\ lastOp' = [op |-> "requestFailed", cleared |-> 0]
    /\ UNCHANGED <<queryTexts, storedTexts, selectedModels, distances, distanceKeys, lastCalculatedState,
                   relatedRows, optimalThresholds, effectPending, ops, plotVars, fileVars, serverVars,
                   componentVars, storageVars>>

\* any of the three requests fails: the catch (lines 1216-1221), then the finally
RequestFailed(r) ==
    /\ EffectsFlushed
    /\ r \in 1..Len(runs)
    /\ Advance(r)
    /\ lastOp' = [op |-> "requestFailed", cleared |-> 0]
    /\ UNCHANGED <<queryTexts, storedTexts, selectedModels, distances, distanceKeys, lastCalculatedState,
                   relatedRows, optimalThresholds, effectPending, ops, plotVars, fileVars, serverVars,
                   componentVars, storageVars>>

-----------------------------------------------------------------------------
(* The handlers of the comparison table *)

maxRows == Max2(Len(queryTexts), Len(storedTexts))

ClearedBy(dist) == Cardinality(DOMAIN distances \ DOMAIN dist)

\* clearDistancesForRow (lines 893-912): the keys it deletes
RowKeys(rowIndex, sel) == { Key(rowIndex, rowIndex, m) : m \in Range(activeModelsOf(sel)) }

\* a row reset that keeps the remembered triples
clearDistancesForRow_KeepsLastState(rowIndex) ==
    /\ distances' = Without(distances, RowKeys(rowIndex, selectedModels))
    /\ distanceKeys' = keysAfterDelete(distanceKeys, distances')
    /\ lastCalculatedState' = lastCalculatedState

\* clearDistancesForRow (lines 893-912)
clearDistancesForRow(rowIndex) ==
    /\ distances' = Without(distances, RowKeys(rowIndex, selectedModels))
    /\ distanceKeys' = keysAfterDelete(distanceKeys, distances')
    /\ lastCalculatedState' = Without(lastCalculatedState, RowKeys(rowIndex, selectedModels))

\* a model change that clears the whole table
ModelKeysIn_All(map, model) == DOMAIN map

\* clearDistancesForModel (lines 935-957): the keys it deletes from a map
ModelKeysIn(map, model) ==
    IF model = NoModel THEN {} ELSE { key \in DOMAIN map : EndsWithModel(key, model) }

clearDistancesForModel(model) ==
    /\ distances' = Without(distances, ModelKeysIn(distances, model))
    /\ distanceKeys' = keysAfterDelete(distanceKeys, distances')
    /\ lastCalculatedState' =
           Without(lastCalculatedState, ModelKeysIn(lastCalculatedState, model))

\* the Add Row button (lines 1590-1593): addQueryText(); addStoredText()
addRow ==
    /\ EffectsFlushed
    /\ ops < MaxOps
    /\ maxRows < MaxRows
    /\ queryTexts' = Append(queryTexts, "")
    /\ storedTexts' = Append(storedTexts, "")
    /\ ops' = ops + 1
    /\ lastOp' = [op |-> "addRow", cleared |-> 0]
    /\ UNCHANGED <<selectedModels, distances, distanceKeys, loading, isGenerating, lastCalculatedState,
                   relatedRows, optimalThresholds, effectPending, runs, plotVars, fileVars, serverVars,
                   componentVars, storageVars>>

\* the trash button of a row (lines 1461-1464): removeQueryText, removeStoredText
removeRow(index) ==
    /\ EffectsFlushed
    /\ ops < MaxOps
    /\ index \in 0..(maxRows - 1)
    /\ queryTexts' = IF index < Len(queryTexts) /\ Len(queryTexts) > 1
                     THEN RemoveAt(queryTexts, index + 1) ELSE queryTexts
    /\ storedTexts' = IF index < Len(storedTexts) /\ Len(storedTexts) > 1
                      THEN RemoveAt(storedTexts, index + 1) ELSE storedTexts
    /\ ops' = ops + 1
    /\ lastOp' = [op |-> "removeRow", cleared |-> 0]
    /\ UNCHANGED <<selectedModels, distances, distanceKeys, loading, isGenerating, lastCalculatedState,
                   relatedRows, optimalThresholds, effectPending, runs, plotVars, fileVars, serverVars,
                   componentVars, storageVars>>

updateQueryText(index, value) ==
    /\ EffectsFlushed
    /\ ops < MaxOps
    /\ index \in 0..(Len(queryTexts) - 1)
    /\ value # queryTexts[index + 1]
    /\ queryTexts' = [queryTexts EXCEPT ![index + 1] = value]
    /\ clearDistancesForRow(index)
    /\ runs' = MarkStale(runs, LAMBDA w : w.row = index)
    /\ ops' = ops + 1
    /\ lastOp' = [op |-> "updateQueryText", cleared |-> ClearedBy(distances')]
    /\ UNCHANGED <<storedTexts, selectedModels, loading, isGenerating, relatedRows, plotVars, fileVars, serverVars,
                   componentVars, storageVars>>
    /\ EffectScheduled

updateStoredText(index, value) ==
    /\ EffectsFlushed
    /\ ops < MaxOps
    /\ index \in 0..(Len(storedTexts) - 1)
    /\ value # storedTexts[index + 1]
    /\ storedTexts' = [storedTexts EXCEPT ![index + 1] = value]
    /\ clearDistancesForRow(index)
    /\ runs' = MarkStale(runs, LAMBDA w : w.row = index)
    /\ ops' = ops + 1
    /\ lastOp' = [op |-> "updateStoredText", cleared |-> ClearedBy(distances')]
    /\ UNCHANGED <<queryTexts, selectedModels, loading, isGenerating, relatedRows, plotVars, fileVars, serverVars,
                   componentVars, storageVars>>
    /\ EffectScheduled

\* the checkbox of a row (rendered only for a row with some text, lines 1497-1504)
toggleRelated(rowIndex) ==
    /\ EffectsFlushed
    /\ ops < MaxOps
    /\ rowIndex \in 0..(maxRows - 1)
    /\ TextAt(queryTexts, rowIndex) # "" \/ TextAt(storedTexts, rowIndex) # ""
    /\ relatedRows' = Put(relatedRows, rowIndex,
                          ~(rowIndex \in DOMAIN relatedRows /\ relatedRows[rowIndex]))
    /\ ops' = ops + 1
    /\ lastOp' = [op |-> "toggleRelated", cleared |-> 0]
    /\ UNCHANGED <<queryTexts, storedTexts, selectedModels, distances, distanceKeys, loading, isGenerating,
                   lastCalculatedState, runs, plotVars, fileVars, serverVars,
                   componentVars, storageVars>>
    /\ EffectScheduled

\* handleModelChange (lines 921-933) with autoCalculateForModel (lines 959-970)
\* up to its first suspension
handleModelChange(column, model) ==
    LET oldModel == selectedModels[column]
        plan == IF oldModel # model /\ model # NoModel
                THEN PlanFor(queryTexts, storedTexts, lastCalculatedState, <<model>>)
                ELSE <<>>
    IN  /\ EffectsFlushed
        /\ ops < MaxOps
        /\ plan # <<>> => Len(runs) < MaxRuns
        /\ selectedModels' = [selectedModels EXCEPT ![column] = model]
        /\ IF oldModel # model
           THEN clearDistancesForModel(oldModel)
           ELSE UNCHANGED <<distances, distanceKeys, lastCalculatedState>>
        /\ runs' = StartRun(IF oldModel # model /\ oldModel # NoModel
                            THEN MarkStale(runs, LAMBDA w : w.model = oldModel)
                            ELSE runs,
                            "auto", plan)
        /\ loading' = StartLoading(loading, plan)
        /\ ops' = ops + 1
        /\ lastOp' = [op |-> "handleModelChange", cleared |-> ClearedBy(distances')]
        /\ UNCHANGED <<queryTexts, storedTexts, isGenerating, relatedRows, plotVars, fileVars, serverVars,
                   componentVars, storageVars>>
        /\ EffectScheduled

\* the Show Cosine Distances button (disabled while isGenerating, line 1387):
\* generateComparisons (lines 1227-1268) up to its first suspension
generateComparisons ==
    LET activeModels == activeModelsOf(selectedModels)
        plan == PlanFor(queryTexts, storedTexts, lastCalculatedState, activeModels)
    IN  /\ EffectsFlushed
        /\ ops < MaxOps
        /\ ~isGenerating
        /\ plan # <<>> => Len(runs) < MaxRuns
        /\ runs' = StartRun(runs, "gen", plan)
        /\ loading' = StartLoading(loading, plan)
        /\ isGenerating' = (plan # <<>>)
        /\ ops' = ops + 1
        /\ lastOp' = [op |-> "generateComparisons", cleared |-> 0]
        /\ UNCHANGED <<queryTexts, storedTexts, selectedModels, distances, distanceKeys, lastCalculatedState,
                       relatedRows, optimalThresholds, effectPending, plotVars, fileVars, serverVars,
                   componentVars, storageVars>>

\* the rows handleCSVUpload parsed out of a file's data lines (lines 992-1013)
CsvFiles == UNION { [1..n -> CsvRowChoices] : n \in {0, 1, 2} }

\* history: the number of rows labelled related before a handler and not after it
UnlabelledBy(related) ==
    Cardinality({ i \in DOMAIN relatedRows :
                    relatedRows[i] /\ ~(i \in DOMAIN related /\ related[i]) })

\* an import that writes the file's labels over the labels present
handleCSVUpload_MergeLabels(rows) ==
    /\ EffectsFlushed
    /\ ops < MaxOps
    /\ queryTexts' = [k \in 1..Len(rows) |-> rows[k].queryText]
    /\ storedTexts' = [k \in 1..Len(rows) |-> rows[k].storedText]
    /\ relatedRows' =
           [i \in DOMAIN relatedRows \cup { k - 1 : k \in { j \in 1..Len(rows) : rows[j].related } } |->
               IF i < Len(rows) /\ rows[i + 1].related THEN TRUE ELSE relatedRows[i]]
    /\ distances' = EmptyMap
    /\ distanceKeys' = <<>>
    /\ lastCalculatedState' = EmptyMap
    /\ runs' = MarkStale(runs, LAMBDA w : TRUE)
    /\ ops' = ops + 1
    /\ lastOp' = [op |-> "handleCSVUpload", cleared |-> ClearedBy(distances'),
                 unlabelled |-> UnlabelledBy(relatedRows')]
    /\ UNCHANGED <<selectedModels, loading, isGenerating, plotVars, fileVars, serverVars,
                   componentVars, storageVars>>
    /\ EffectScheduled

\* handleCSVUpload, from the parsed rows on (lines 1015-1022)
handleCSVUpload(rows) ==
    /\ EffectsFlushed
    /\ ops < MaxOps
    /\ queryTexts' = [k \in 1..Len(rows) |-> rows[k].queryText]
    /\ storedTexts' = [k \in 1..Len(rows) |-> rows[k].storedText]
    /\ relatedRows' = [i \in { k - 1 : k \in { j \in 1..Len(rows) : rows[j].related } } |-> TRUE]
    /\ distances' = EmptyMap
    /\ distanceKeys' = <<>>
    /\ lastCalculatedState' = EmptyMap
    /\ runs' = MarkStale(runs, LAMBDA w : TRUE)
    /\ ops' = ops + 1
    /\ lastOp' = [op |-> "handleCSVUpload", cleared |-> ClearedBy(distances'),
                 unlabelled |-> UnlabelledBy(relatedRows')]
    /\ UNCHANGED <<selectedModels, loading, isGenerating, plotVars, fileVars, serverVars,
                   componentVars, storageVars>>
    /\ EffectScheduled

-----------------------------------------------------------------------------
(* The comparison table *)

Init ==
    /\ queryTexts = <<"">>
    /\ storedTexts = <<"">>
    /\ selectedModels = [k \in Range(ModelKeys) |-> NoModel]
    /\ distances = EmptyMap
    /\ distanceKeys = <<>>
    /\ loading = EmptyMap
    /\ isGenerating = FALSE
    /\ lastCalculatedState = EmptyMap
    /\ relatedRows = EmptyMap
    /\ optimalThresholds = EmptyMap
    /\ effectPending = FALSE
    /\ runs = <<>>
    /\ ops = 0
    /\ lastOp = [op |-> "init", cleared |-> 0]
    /\ showPlot = FALSE
    /\ plotInput = <<>>
    /\ plotStats = None
    /\ csvFile = None
    /\ request = None
    /\ response = None
    /\ InitModelTable
    /\ InitCalculator
    /\ InitStorage

Next ==
    \/ addRow
    \/ \E index \in 0..(MaxRows - 1) : removeRow(index)
    \/ \E index \in 0..(MaxRows - 1), value \in TextValues : updateQueryText(index, value)
    \/ \E index \in 0..(MaxRows - 1), value \in TextValues : updateStoredText(index, value)
    \/ \E rowIndex \in 0..(MaxRows - 1) : toggleRelated(rowIndex)
    \/ \E column \in SlotChoices, model \in ModelChoices : handleModelChange(column, model)
    \/ generateComparisons
    \/ \E rows \in CsvFiles : handleCSVUpload(rows)
    \/ \E r \in 1..MaxRuns : EmbeddingResolved(r)
    \/ \E r \in 1..MaxRuns, d \in DistResults : DistanceResolved(r, d)
    \/ \E r \in 1..MaxRuns : RequestFailed(r)
    \/ ThresholdEffect

Spec == Init /\ [][Next]_vars

-----------------------------------------------------------------------------
(* The comparison table from the moment a CSV file has been loaded into it:  *)
(* model selection, text edits and the computations they start.              *)

InitLoaded ==
    \E rows \in { f \in CsvFiles : Len(f) >= 1 } :
        /\ queryTexts = [k \in 1..Len(rows) |-> rows[k].queryText]
        /\ storedTexts = [k \in 1..Len(rows) |-> rows[k].storedText]
        /\ relatedRows = [i \in { k - 1 : k \in { j \in 1..Len(rows) : rows[j].related } } |-> TRUE]
        /\ selectedModels = [k \in Range(ModelKeys) |-> NoModel]
        /\ distances = EmptyMap
        /\ distanceKeys = <<>>
        /\ loading = EmptyMap
        /\ isGenerating = FALSE
        /\ lastCalculatedState = EmptyMap
        /\ optimalThresholds = EmptyMap
        /\ effectPending = FALSE
        /\ runs = <<>>
        /\ ops = 0
        /\ lastOp = [op |-> "handleCSVUpload", cleared |-> 0, unlabelled |-> 0]
        /\ showPlot = FALSE
    /\ plotInput = <<>>
        /\ plotStats = None
        /\ csvFile = None
        /\ request = None
        /\ response = None
        /\ InitModelTable
        /\ InitCalculator
        /\ InitStorage

NextLoaded ==
    \/ \E index \in 0..(MaxRows - 1), value \in TextValues : updateQueryText(index, value)
    \/ \E index \in 0..(MaxRows - 1), value \in TextValues : updateStoredText(index, value)
    \/ \E column \in SlotChoices, model \in ModelChoices : handleModelChange(column, model)
    \/ \E r \in 1..MaxRuns : EmbeddingResolved(r)
    \/ \E r \in 1..MaxRuns, d \in DistResults : DistanceResolved(r, d)
    \/ \E r \in 1..MaxRuns : RequestFailed(r)
    \/ ThresholdEffect

SpecLoaded == InitLoaded /\ [][NextLoaded]_vars

\* the loaded table under model selection alone
NextModels ==
    \/ \E column \in SlotChoices, model \in ModelChoices : handleModelChange(column, model)
    \/ \E r \in 1..MaxRuns : EmbeddingResolved(r)
    \/ \E r \in 1..MaxRuns, d \in DistResults : DistanceResolved(r, d)
    \/ \E r \in 1..MaxRuns : RequestFailed(r)
    \/ ThresholdEffect

SpecModels == InitLoaded /\ [][NextModels]_vars

-----------------------------------------------------------------------------
(* The comparison table with a file loaded and a model bound: text edits,    *)
(* the Show Cosine Distances button and the computations it starts.          *)

InitBound ==
    \E rows \in { f \in CsvFiles : Len(f) >= 1 } :
        /\ queryTexts = [k \in 1..Len(rows) |-> rows[k].queryText]
        /\ storedTexts = [k \in 1..Len(rows) |-> rows[k].storedText]
        /\ relatedRows = [i \in { k - 1 : k \in { j \in 1..Len(rows) : rows[j].related } } |-> TRUE]
        /\ selectedModels = [k \in Range(ModelKeys) |->
                                IF k = "model1" THEN Embedding3Small ELSE NoModel]
        /\ distances = EmptyMap
        /\ distanceKeys = <<>>
        /\ loading = EmptyMap
        /\ isGenerating = FALSE
        /\ lastCalculatedState = EmptyMap
        /\ optimalThresholds = [model \in {Embedding3Small} |-> None]
        /\ effectPending = FALSE
        /\ runs = <<>>
        /\ ops = 0
        /\ lastOp = [op |-> "handleModelChange", cleared |-> 0]
        /\ showPlot = FALSE
    /\ plotInput = <<>>
        /\ plotStats = None
        /\ csvFile = None
        /\ request = None
        /\ response = None
        /\ InitModelTable
        /\ InitCalculator
        /\ InitStorage

NextBound ==
    \/ \E index \in 0..(MaxRows - 1), value \in TextValues : updateQueryText(index, value)
    \/ \E index \in 0..(MaxRows - 1), value \in TextValues : updateStoredText(index, value)
    \/ generateComparisons
    \/ \E r \in 1..MaxRuns : EmbeddingResolved(r)
    \/ \E r \in 1..MaxRuns, d \in DistResults : DistanceResolved(r, d)
    \/ \E r \in 1..MaxRuns : RequestFailed(r)
    \/ ThresholdEffect

SpecBound == InitBound /\ [][NextBound]_vars

-----------------------------------------------------------------------------
(* calculateOptimalThresholds on a table whose distances and labels are drawn *)
(* from bounded sets *)

ThresholdRows == 2

ThresholdKeys == { Key(i, i, m) : i \in 0..(ThresholdRows - 1), m \in ModelChoices }

PartialMaps(K, V) == UNION { [D -> V] : D \in SUBSET K }

ThresholdSelections ==
    { [k \in Range(ModelKeys) |-> IF k = "model1" THEN Embedding3Small ELSE NoModel],
      [k \in Range(ModelKeys) |-> IF k = "model1" THEN BgeSmallEn
                                   ELSE IF k = "model3" THEN Embedding3Small ELSE NoModel] }

\* the keys of a map in an order in which generateComparisons sets them on an
\* empty table (lines 1243-1254): row by row and, within a row, slot by slot, with
\* text-embedding-3-small in the first slot
RowOrder(dist) ==
    LET rank(key) == Cardinality({ o \in DOMAIN dist :
                         \/ KeyRow(o) < KeyRow(key)
                         \/ /\ KeyRow(o) = KeyRow(key)
                            /\ KeyModel(o) = Embedding3Small
                            /\ KeyModel(key) # Embedding3Small })
    IN  [k \in 1..Cardinality(DOMAIN dist) |-> CHOOSE key \in DOMAIN dist : rank(key) = k - 1]

\* the order of the keys when the entries were set the other way round, each one
\* by a computation of its own after an edit (line 1208)
ReverseRowOrder(dist) ==
    LET keys == RowOrder(dist)
    IN  [k \in 1..Len(keys) |-> keys[Len(keys) + 1 - k]]

\* a table of ThresholdRows rows whose entries are absent, null or one of the given
\* values and were set in one of the given directions ("down": RowOrder, "up":
\* ReverseRowOrder), with one of the given labellings
InitEntries(Values, Labels, Directions) ==
    /\ queryTexts = [k \in 1..ThresholdRows |-> "a"]
    /\ storedTexts = [k \in 1..ThresholdRows |-> "b"]
    /\ selectedModels \in ThresholdSelections
    /\ distances \in PartialMaps(ThresholdKeys, {None} \cup { Some(d) : d \in Values })
    /\ distanceKeys \in { IF d = "down" THEN RowOrder(distances) ELSE ReverseRowOrder(distances) :
                           d \in Directions }
    /\ relatedRows \in Labels
    /\ loading = EmptyMap
    /\ isGenerating = FALSE
    /\ lastCalculatedState = EmptyMap
    /\ optimalThresholds = EmptyMap
    /\ effectPending = FALSE
    /\ runs = <<>>
    /\ ops = 0
    /\ lastOp = [op |-> "init", cleared |-> 0]
    /\ showPlot = FALSE
    /\ plotInput = <<>>
    /\ plotStats = None
    /\ csvFile = None
    /\ request = None
    /\ response = None
    /\ InitModelTable
    /\ InitCalculator
    /\ InitStorage

InitThreshold ==
    InitEntries(ThresholdDistances, PartialMaps(0..(ThresholdRows - 1), BOOLEAN), {"down"})

\* one run of calculateOptimalThresholds (lines 806-836) on the current state: it
\* reads selectedModels, relatedRows and distances, builds newThresholds afresh
\* and sets optimalThresholds, nothing else
RunThresholdEffect ==
    /\ ops < MaxOps
    /\ optimalThresholds' = calculateOptimalThresholds(selectedModels, relatedRows, distances)
    /\ ops' = ops + 1
    /\ lastOp' = [op |-> "calculateOptimalThresholds", cleared |-> 0]
    /\ UNCHANGED <<queryTexts, storedTexts, selectedModels, distances, distanceKeys, loading, isGenerating,
                   lastCalculatedState, relatedRows, effectPending, runs, plotVars, fileVars, serverVars,
                   componentVars, storageVars>>

NextThreshold == RunThresholdEffect

SpecThreshold == InitThreshold /\ [][NextThreshold]_vars

-----------------------------------------------------------------------------
(* calculateBoxPlotStats on lists drawn from a bounded set *)

MaxPlotLen == 5

PlotValues == {1, 2, 3}

RECURSIVE InsertAsc(_, _)
InsertAsc(x, sorted) ==
    IF sorted = <<>> THEN <<x>>
    ELSE IF x <= Head(sorted) THEN <<x>> \o sorted
    ELSE <<Head(sorted)>> \o InsertAsc(x, Tail(sorted))

\* [...data].sort((a, b) => a - b)
RECURSIVE SortAsc(_)
SortAsc(data) == IF data = <<>> THEN <<>> ELSE InsertAsc(Head(data), SortAsc(Tail(data)))

\* the statistics read off the list in the order given
calculateBoxPlotStats_NoSort(data) ==
    IF Len(data) = 0 THEN None
    ELSE Some([min |-> data[1],
               q1 |-> data[(Len(data) \div 4) + 1],
               median |-> data[(Len(data) \div 2) + 1],
               q3 |-> data[((3 * Len(data)) \div 4) + 1],
               max |-> data[Len(data)],
               count |-> Len(data)])

\* calculateBoxPlotStats (lines 1346-1357); sorted[k] of the code is sorted[k + 1] here
calculateBoxPlotStats(data) ==
    IF Len(data) = 0 THEN None
    ELSE LET sorted == SortAsc(data)
         IN  Some([min |-> sorted[1],
                   q1 |-> sorted[(Len(sorted) \div 4) + 1],
                   median |-> sorted[(Len(sorted) \div 2) + 1],
                   q3 |-> sorted[((3 * Len(sorted)) \div 4) + 1],
                   max |-> sorted[Len(sorted)],
                   count |-> Len(data)])

InitBoxPlot ==
    /\ queryTexts = <<"">>
    /\ storedTexts = <<"">>
    /\ selectedModels = [k \in Range(ModelKeys) |-> NoModel]
    /\ distances = EmptyMap
    /\ distanceKeys = <<>>
    /\ loading = EmptyMap
    /\ isGenerating = FALSE
    /\ lastCalculatedState = EmptyMap
    /\ relatedRows = EmptyMap
    /\ optimalThresholds = EmptyMap
    /\ effectPending = FALSE
    /\ runs = <<>>
    /\ ops = 0
    /\ lastOp = [op |-> "init", cleared |-> 0]
    /\ showPlot = TRUE
    /\ plotInput \in UNION { [1..n -> PlotValues] : n \in 0..MaxPlotLen }
    /\ plotStats = None
    /\ csvFile = None
    /\ request = None
    /\ response = None
    /\ InitModelTable
    /\ InitCalculator
    /\ InitStorage

\* the plot section calling calculateBoxPlotStats on one list (lines 1680-1681)
RunBoxPlot ==
    /\ plotStats' = calculateBoxPlotStats(plotInput)
    /\ lastOp' = [op |-> "calculateBoxPlotStats", cleared |-> 0]
    /\ UNCHANGED <<queryTexts, storedTexts, selectedModels, distances, distanceKeys, loading, isGenerating,
                   lastCalculatedState, relatedRows, optimalThresholds, effectPending, runs, ops, showPlot,
                   plotInput, fileVars, serverVars,
                   componentVars, storageVars>>

NextBoxPlot == RunBoxPlot

SpecBoxPlot == InitBoxPlot /\ [][NextBoxPlot]_vars

-----------------------------------------------------------------------------
(* What the table shows and exports *)

\* the entry of slot (rowIndex, model): None when it is unset
EntryOf(dist, rowIndex, model) ==
    IF HasValue(dist, Key(rowIndex, rowIndex, model))
    THEN dist[Key(rowIndex, rowIndex, model)] ELSE None

\* relatedRows[rowIndex] || false
RelatedOf(related, rowIndex) == rowIndex \in DOMAIN related /\ related[rowIndex]

\* the Optimal Threshold cell of a slot (lines 1562-1570): optimalThresholds[model] || null
ScreenThreshold(modelKey) ==
    LET model == selectedModels[modelKey]
        threshold == IF model \in DOMAIN optimalThresholds THEN optimalThresholds[model] ELSE None
    IN  IF threshold = Some(0) THEN None ELSE threshold

\* the number of doublings that bring x / 10^5 to 1 or above
RECURSIVE ShiftToUnit(_)
ShiftToUnit(x) == IF x >= 100000 THEN 0 ELSE 1 + ShiftToUnit(2 * x)

\* x.toFixed(4), as the number of 10^-4 units it prints.  toFixed rounds the
\* binary double nearest to x / 10^5, not the decimal: a value that ends in 5
\* goes down when its double lies below it and up when the double lies above
\* it or is exact.  The double is m * 2^-s with m the integer nearest to
\* x * 2^s / 10^5, so the remainder of x * 2^s by 10^5 tells the side.
ToFixed4(x) ==
    IF x % 10 # 5 THEN (x + 5) \div 10
    ELSE LET s == IF x < 100000 THEN 52 + ShiftToUnit(x)
                  ELSE IF x < 200000 THEN 52 ELSE 51
             r == DoubleMod(x % 100000, s)
         IN  IF 0 < r /\ r < 50000 THEN x \div 10 ELSE (x \div 10) + 1

\* the Optimal Threshold row of downloadCSV (lines 1085-1091), per active model
ExportThreshold(model) ==
    IF model \in DOMAIN optimalThresholds /\ optimalThresholds[model] # None
    THEN Some(ToFixed4(optimalThresholds[model][1])) ELSE None

-----------------------------------------------------------------------------
(* CSV files.  A file content, a line and a cell are sequences of characters  *)
(* (strings of length 1), so that split, trim, replace and toLowerCase are    *)
(* computed as the source computes them.                                     *)

UpperCase == <<"A", "B", "C", "D", "E", "F", "G", "H", "I", "J", "K", "L", "M", "N", "O", "P", "Q", "R", "S", "T", "U", "V", "W", "X", "Y", "Z">>
LowerCase == <<"a", "b", "c", "d", "e", "f", "g", "h", "i", "j", "k", "l", "m", "n", "o", "p", "q", "r", "s", "t", "u", "v", "w", "x", "y", "z">>

ToLowerChar(c) ==
    IF \E k \in 1..Len(UpperCase) : UpperCase[k] = c
    THEN LowerCase[CHOOSE k \in 1..Len(UpperCase) : UpperCase[k] = c]
    ELSE c

\* String.prototype.toLowerCase
toLowerCase(s) == [k \in 1..Len(s) |-> ToLowerChar(s[k])]

IsWhiteSpace(c) == c \in {" ", "\t", "\r", "\n"}

RECURSIVE trimStart(_)
trimStart(s) == IF s # <<>> /\ IsWhiteSpace(Head(s)) THEN trimStart(Tail(s)) ELSE s

RECURSIVE trimEnd(_)
trimEnd(s) ==
    IF s # <<>> /\ IsWhiteSpace(s[Len(s)]) THEN trimEnd(SubSeq(s, 1, Len(s) - 1)) ELSE s

\* String.prototype.trim
trim(s) == trimEnd(trimStart(s))

\* String.prototype.split with a one-character separator
RECURSIVE split(_, _)
split(s, sep) ==
    IF \E k \in 1..Len(s) : s[k] = sep
    THEN LET first == CHOOSE k \in 1..Len(s) : s[k] = sep /\ \A j \in 1..(k - 1) : s[j] # sep
         IN  <<SubSeq(s, 1, first - 1)>> \o split(SubSeq(s, first + 1, Len(s)), sep)
    ELSE <<s>>

\* Array.prototype.join
RECURSIVE join(_, _)
join(parts, sep) ==
    IF parts = <<>> THEN <<>>
    ELSE IF Len(parts) = 1 THEN parts[1]
    ELSE parts[1] \o sep \o join(Tail(parts), sep)

\* String.prototype.includes
includes(s, sub) ==
    \E k \in 0..(Len(s) - Len(sub)) : SubSeq(s, k + 1, k + Len(sub)) = sub

QuoteChars == {"\"", "'"}

\* replace(/^["']|["']$/g, ''): one quote off the start, then one off the end
stripQuotes(s) ==
    LET s1 == IF s # <<>> /\ Head(s) \in QuoteChars THEN Tail(s) ELSE s
    IN  IF s1 # <<>> /\ s1[Len(s1)] \in QuoteChars THEN SubSeq(s1, 1, Len(s1) - 1) ELSE s1

\* replace(/"/g, '""')
RECURSIVE escapeQuotes(_)
escapeQuotes(s) ==
    IF s = <<>> THEN <<>>
    ELSE (IF Head(s) = "\"" THEN <<"\"", "\"">> ELSE <<Head(s)>>) \o escapeQuotes(Tail(s))

\* line.split(',').map(col => col.trim().replace(/^["']|["']$/g, ''))  (line 998)
columnsOf(line) ==
    LET raw == split(line, ",")
    IN  [k \in 1..Len(raw) |-> stripQuotes(trim(raw[k]))]

\* columns[k] || ''  (k counted from 1 here)
columnAt(columns, k) == IF k <= Len(columns) THEN columns[k] ELSE <<>>

\* a Related cell that any truthy word marks as related
isRelated_Truthy(relatedValue) ==
    toLowerCase(relatedValue) \in {<<"r", "e", "l", "a", "t", "e", "d">>, <<"y", "e", "s">>, <<"t", "r", "u", "e">>, <<"1">>}

\* relatedValue.toLowerCase() === 'related' || relatedValue.toLowerCase() === 'yes'  (line 1009)
isRelated(relatedValue) ==
    toLowerCase(relatedValue) = <<"r", "e", "l", "a", "t", "e", "d">> \/ toLowerCase(relatedValue) = <<"y", "e", "s">>

\* one data line of the file as the row it is parsed into (lines 996-1013)
parsedRow(line) ==
    LET columns == columnsOf(line)
    IN  [queryText |-> columnAt(columns, 1),
         storedText |-> columnAt(columns, 2),
         related |-> isRelated(columnAt(columns, 3))]

\* hasHeaders (lines 987-988)
hasHeaders(lines) ==
    LET firstLine == toLowerCase(lines[1])
    IN  includes(firstLine, <<"q", "u", "e", "r", "y">>) \/ includes(firstLine, <<"s", "t", "o", "r", "e", "d">>)
            \/ includes(firstLine, <<"r", "e", "l", "a", "t", "e", "d">>)

\* content.split('\n').filter(line => line.trim())  (line 983)
linesOf(content) == SelectSeq(split(content, "\n"), LAMBDA line : trim(line) # <<>>)

\* the rows parsed from a file content (lines 981-1013); None when the handler
\* returns before parsing (no content, no non-blank line)
parseCSV(content) ==
    LET lines == linesOf(content)
    IN  IF lines = <<>> THEN None
        ELSE LET dataLines == IF hasHeaders(lines) THEN Tail(lines) ELSE lines
             IN  Some([k \in 1..Len(dataLines) |-> parsedRow(dataLines[k])])

\* handleCSVUpload from the file on (lines 972-1040)
handleCSVFile(content) ==
    /\ parseCSV(content) # None
    /\ handleCSVUpload(parseCSV(content)[1])

-----------------------------------------------------------------------------
(* Import of files written from a bounded choice of cells *)

CsvFileRows == 2

\* what a file holds in its Related column
RelatedValues ==
    { <<"y", "e", "s">>, <<"Y", "e", "s">>, <<"r", "e", "l", "a", "t", "e", "d">>, <<"R", "E", "L", "A", "T", "E", "D">>, <<>>, <<"n", "o">>, <<"t", "r", "u", "e">>, <<"1">>, <<"y", "e", "s", "s">> }

\* the cells of one line of a file
CsvCells == { [queryText |-> <<"a">>, storedText |-> <<"b">>, related |-> v] : v \in RelatedValues }

CsvCellFiles == UNION { [1..n -> CsvCells] : n \in 1..CsvFileRows }

CsvHeaderLine == <<"Q", "u", "e", "r", "y", " ", "T", "e", "x", "t", ",", "S", "t", "o", "r", "e", "d", " ", "T", "e", "x", "t", ",", "R", "e", "l", "a", "t", "e", "d">>

\* the text of a file with the given lines of cells, with or without a header line
CsvText(withHeader, cells) ==
    join((IF withHeader THEN <<CsvHeaderLine>> ELSE <<>>)
             \o [k \in 1..Len(cells) |->
                    join(<<cells[k].queryText, cells[k].storedText, cells[k].related>>, <<",">>)],
         <<"\n">>)

InitCsv ==
    /\ queryTexts = <<"">>
    /\ storedTexts = <<"">>
    /\ selectedModels = [k \in Range(ModelKeys) |-> NoModel]
    /\ distances = EmptyMap
    /\ distanceKeys = <<>>
    /\ loading = EmptyMap
    /\ isGenerating = FALSE
    /\ lastCalculatedState = EmptyMap
    /\ relatedRows = EmptyMap
    /\ optimalThresholds = EmptyMap
    /\ effectPending = FALSE
    /\ runs = <<>>
    /\ ops = 0
    /\ lastOp = [op |-> "init", cleared |-> 0]
    /\ showPlot = FALSE
    /\ plotInput = <<>>
    /\ plotStats = None
    /\ csvFile \in { Some(CsvText(withHeader, cells)) :
                        withHeader \in BOOLEAN, cells \in CsvCellFiles }
    /\ request = None
    /\ response = None
    /\ InitModelTable
    /\ InitCalculator
    /\ InitStorage

\* the user picks the file in the upload input (line 1395)
UploadFile == csvFile # None /\ handleCSVFile(csvFile[1])

NextCsv ==
    \/ UploadFile
    \/ ThresholdEffect

SpecCsv == InitCsv /\ [][NextCsv]_vars

-----------------------------------------------------------------------------
(* Export of the table to a CSV file, and the import of the exported file *)

\* the model identifier as the text written into the header line
ModelText(model) ==
    CASE model = Embedding3Small -> <<"t", "e", "x", "t", "-", "e", "m", "b", "e", "d", "d", "i", "n", "g", "-", "3", "-", "s", "m", "a", "l", "l">>
      [] model = Embedding3Large -> <<"t", "e", "x", "t", "-", "e", "m", "b", "e", "d", "d", "i", "n", "g", "-", "3", "-", "l", "a", "r", "g", "e">>
      [] model = EmbeddingAda002 -> <<"t", "e", "x", "t", "-", "e", "m", "b", "e", "d", "d", "i", "n", "g", "-", "a", "d", "a", "-", "0", "0", "2">>
      [] model = BgeSmallEn -> <<"B", "A", "A", "I", "/", "b", "g", "e", "-", "s", "m", "a", "l", "l", "-", "e", "n", "-", "v", "1", ".", "5">>

DigitChars == <<"0", "1", "2", "3", "4", "5", "6", "7", "8", "9">>

RECURSIVE DigitsOf(_)
DigitsOf(n) ==
    IF n < 10 THEN <<DigitChars[n + 1]>>
    ELSE DigitsOf(n \div 10) \o <<DigitChars[(n % 10) + 1]>>

\* x.toFixed(4) as text, for x >= 0 in units of 10^-5
toFixedText(x) ==
    LET n == ToFixed4(x)
        frac == n % 10000
    IN  DigitsOf(n \div 10000) \o <<".">>
            \o <<DigitChars[(frac \div 1000) + 1], DigitChars[((frac \div 100) % 10) + 1],
                 DigitChars[((frac \div 10) % 10) + 1], DigitChars[(frac % 10) + 1]>>

\* a cell of a number that may be null or undefined (lines 1079, 1089)
numberCell(map, key) ==
    IF key \in DOMAIN map /\ map[key] # None THEN toFixedText(map[key][1]) ELSE <<>>

\* queryTexts[i] || '' (lines 1067-1068): the text as it is, not trimmed
textOrEmpty(texts, i) == IF i < Len(texts) THEN texts[i + 1] ELSE <<>>

\* hasDistanceData (line 1047)
hasDistanceData == \E key \in DOMAIN distances : distances[key] # None

\* csvContent of downloadCSV (lines 1043-1094)
csvContent ==
    LET activeModels == activeModelsOf(selectedModels)
        headers == <<<<"Q", "u", "e", "r", "y", " ", "T", "e", "x", "t">>, <<"S", "t", "o", "r", "e", "d", " ", "T", "e", "x", "t">>>>
                       \o [k \in 1..Len(activeModels) |-> ModelText(activeModels[k])]
        row(i) == <<<<"\"">> \o escapeQuotes(textOrEmpty(queryTexts, i)) \o <<"\"">>,
                    <<"\"">> \o escapeQuotes(textOrEmpty(storedTexts, i)) \o <<"\"">>>>
                      \o [k \in 1..Len(activeModels) |->
                             numberCell(distances, Key(i, i, activeModels[k]))]
        thresholdRow == <<<<"O", "p", "t", "i", "m", "a", "l", " ", "T", "h", "r", "e", "s", "h", "o", "l", "d">>, <<>>>>
                      \o [k \in 1..Len(activeModels) |->
                             numberCell(optimalThresholds, activeModels[k])]
        csvRows == <<join(headers, <<",">>)>>
                      \o [k \in 1..maxRows |-> join(row(k - 1), <<",">>)]
                      \o <<join(thresholdRow, <<",">>)>>
    IN  join(csvRows, <<"\n">>)

\* downloadCSV (lines 1042-1112)
downloadCSV ==
    /\ ops < MaxOps
    /\ hasDistanceData
    /\ csvFile' = Some(csvContent)
    /\ ops' = ops + 1
    /\ lastOp' = [op |-> "downloadCSV", cleared |-> 0]
    /\ UNCHANGED <<queryTexts, storedTexts, selectedModels, distances, distanceKeys, loading, isGenerating,
                   lastCalculatedState, relatedRows, optimalThresholds, effectPending, runs, plotVars,
                   serverVars,
                   componentVars, storageVars>>

RoundTripRows == 2

RoundTripTexts == { <<"a">>, <<" ", "b">> }

RoundTripModels == [k \in Range(ModelKeys) |-> IF k = "model1" THEN Embedding3Small ELSE NoModel]

\* a table with one model bound and at least one distance computed
InitRoundTrip ==
    \E n \in 1..RoundTripRows :
        /\ queryTexts \in [1..n -> RoundTripTexts]
        /\ storedTexts \in [1..n -> RoundTripTexts]
        /\ selectedModels = RoundTripModels
        /\ distances \in { d \in PartialMaps({ Key(i, i, Embedding3Small) : i \in 0..(n - 1) },
                                            { Some(x) : x \in DistResults }) : d # EmptyMap }
        /\ distanceKeys = RowOrder(distances)
        /\ relatedRows \in PartialMaps(0..(n - 1), {TRUE})
        /\ optimalThresholds = calculateOptimalThresholds(selectedModels, relatedRows, distances)
        /\ effectPending = FALSE
        /\ loading = EmptyMap
        /\ isGenerating = FALSE
        /\ lastCalculatedState = EmptyMap
        /\ runs = <<>>
        /\ ops = 0
        /\ lastOp = [op |-> "init", cleared |-> 0]
        /\ showPlot = FALSE
    /\ plotInput = <<>>
        /\ plotStats = None
        /\ csvFile = None
        /\ request = None
        /\ response = None
        /\ InitModelTable
        /\ InitCalculator
        /\ InitStorage

NextRoundTrip ==
    \/ downloadCSV
    \/ UploadFile
    \/ ThresholdEffect

SpecRoundTrip == InitRoundTrip /\ [][NextRoundTrip]_vars

-----------------------------------------------------------------------------
(* The server: cosine distance (server/routes.ts).  A JavaScript call either  *)
(* throws or returns a number, which may be NaN; a distance is counted in     *)
(* units of 10^-5, its similarity term truncated to 4 decimals.              *)

MaxDim == 2

VectorValues == {-1, 0, 1}

Vectors == UNION { [1..n -> VectorValues] : n \in 1..MaxDim }

Thrown(message) == [kind |-> "throw", message |-> message, value |-> 0]

Returned(value) == [kind |-> "number", message |-> "", value |-> value]

NaN == [kind |-> "NaN", message |-> "", value |-> 0]

RECURSIVE SumOver(_, _)
SumOver(f, n) == IF n = 0 THEN 0 ELSE SumOver(f, n - 1) + f[n]

\* the sum the loop accumulates (lines 31-35): over i < vectorA.length
dotProductOf(vectorA, vectorB) ==
    SumOver([i \in 1..Len(vectorA) |-> vectorA[i] * vectorB[i]], Len(vectorA))

\* the largest r with r * r <= n, searched between lo and hi
RECURSIVE ISqrtIn(_, _, _)
ISqrtIn(n, lo, hi) ==
    IF lo >= hi THEN lo
    ELSE LET mid == (lo + hi + 1) \div 2
         IN  IF mid * mid <= n THEN ISqrtIn(n, mid, hi) ELSE ISqrtIn(n, lo, mid - 1)

\* 1 - dotProduct / (Math.sqrt(magnitudeA) * Math.sqrt(magnitudeB))  (lines 38-42);
\* 0 / 0 is NaN (a zero magnitude makes the dot product zero as well)
cosineOf(dotProduct, magnitudeA, magnitudeB) ==
    IF magnitudeA * magnitudeB = 0 THEN NaN
    ELSE LET product == ISqrtIn(magnitudeA * magnitudeB * 100000000, 0, 46340)
             similarity == IF dotProduct >= 0
                           THEN (dotProduct * 100000000) \div product
                           ELSE 0 - (((0 - dotProduct) * 100000000) \div product)
         IN  Returned(100000 - similarity * 10)

\* a cosine distance that reads the vectors without comparing their lengths
calculateCosineDistance_NoLengthCheck(vectorA, vectorB) ==
    IF Len(vectorA) > Len(vectorB) THEN NaN
    ELSE cosineOf(dotProductOf(vectorA, vectorB),
                  dotProductOf(vectorA, vectorA),
                  SumOver([i \in 1..Len(vectorA) |-> vectorB[i] * vectorB[i]], Len(vectorA)))

\* calculateCosineDistance, the function the endpoint calls (routes.ts lines 23-43)
calculateCosineDistance(vectorA, vectorB) ==
    IF Len(vectorA) # Len(vectorB) THEN Thrown("Vectors must have the same dimensions")
    ELSE cosineOf(dotProductOf(vectorA, vectorB),
                  dotProductOf(vectorA, vectorA),
                  dotProductOf(vectorB, vectorB))

\* calculateCosineDistance, the exported utility (lines 277-301)
calculateCosineDistanceUtility(vectorA, vectorB) ==
    IF Len(vectorA) # Len(vectorB) THEN Thrown("Vectors must have the same dimensions")
    ELSE IF dotProductOf(vectorA, vectorA) = 0 \/ dotProductOf(vectorB, vectorB) = 0
    THEN Thrown("Cannot calculate distance for zero vectors")
    ELSE cosineOf(dotProductOf(vectorA, vectorB),
                  dotProductOf(vectorA, vectorA),
                  dotProductOf(vectorB, vectorB))

\* the answer of POST /api/embeddings/distance (lines 141-180): the status and, in a
\* 200 answer, the distance of the JSON body (NaN is serialised as null)
distanceEndpoint(embeddingA, embeddingB) ==
    IF Len(embeddingA) # Len(embeddingB)
    THEN [status |-> 400, hasDistance |-> FALSE, distance |-> None,
          message |-> "Embedding dimensions must match. A: " \o ToString(Len(embeddingA))
                          \o ", B: " \o ToString(Len(embeddingB))]
    ELSE LET distance == calculateCosineDistance(embeddingA, embeddingB)
         IN  IF distance.kind = "throw"
             THEN [status |-> 500, hasDistance |-> FALSE, distance |-> None,
                   message |-> distance.message]
             ELSE [status |-> 200, hasDistance |-> TRUE,
                   distance |-> IF distance.kind = "NaN" THEN None ELSE Some(distance.value),
                   message |-> ""]

InitCosine ==
    /\ queryTexts = <<"">>
    /\ storedTexts = <<"">>
    /\ selectedModels = [k \in Range(ModelKeys) |-> NoModel]
    /\ distances = EmptyMap
    /\ distanceKeys = <<>>
    /\ loading = EmptyMap
    /\ isGenerating = FALSE
    /\ lastCalculatedState = EmptyMap
    /\ relatedRows = EmptyMap
    /\ optimalThresholds = EmptyMap
    /\ effectPending = FALSE
    /\ runs = <<>>
    /\ ops = 0
    /\ lastOp = [op |-> "init", cleared |-> 0]
    /\ showPlot = FALSE
    /\ plotInput = <<>>
    /\ plotStats = None
    /\ csvFile = None
    /\ request \in { Some([embeddingA |-> a, embeddingB |-> b]) : a \in Vectors, b \in Vectors }
    /\ response = None
    /\ InitModelTable
    /\ InitCalculator
    /\ InitStorage

\* the request is served; the three computations are run on its vectors
PostDistance ==
    /\ request # None
    /\ response' =
           Some([endpoint |-> distanceEndpoint(request[1].embeddingA, request[1].embeddingB),
                 helper |-> calculateCosineDistance(request[1].embeddingA, request[1].embeddingB),
                 utility |-> calculateCosineDistanceUtility(request[1].embeddingA,
                                                            request[1].embeddingB)])
    /\ lastOp' = [op |-> "postDistance", cleared |-> 0]
    /\ UNCHANGED <<queryTexts, storedTexts, selectedModels, distances, distanceKeys, loading, isGenerating,
                   lastCalculatedState, relatedRows, optimalThresholds, effectPending, runs, ops, plotVars,
                   fileVars, request,
                   componentVars, storageVars>>

NextCosine == PostDistance

SpecCosine == InitCosine /\ [][NextCosine]_vars

-----------------------------------------------------------------------------
(* The inline plot section: the lists handed to calculateBoxPlotStats, on a   *)
(* table whose distances and labels are drawn from bounded sets               *)

\* the array filled by the pushes for the keys visited (lines 1631-1635)
PlotList(visited, dist) == [k \in 1..Len(visited) |-> dist[visited[k]][1]]

\* the model of a key read as keyParts[2], without the join
modelData_FirstToken(sel, related, keys, dist) ==
    LET activeModels == activeModelsOf(sel)
        \* Object.keys(distances).forEach visits the keys in the order of their insertion
        pushed(model, label) ==
            SelectSeq(keys, LAMBDA key :
                                /\ dist[key] # None
                                /\ Len(key) >= 3
                                /\ <<key[3]>> \in Range(activeModels)
                                /\ <<key[3]>> = model
                                /\ RelatedOf(related, KeyRow(key)) = label)
    IN  [model \in Range(activeModels) |->
            [related |-> PlotList(pushed(model, TRUE), dist),
             unrelated |-> PlotList(pushed(model, FALSE), dist)]]

\* modelData of the plot section (lines 1612-1639)
modelData(sel, related, keys, dist) ==
    LET activeModels == activeModelsOf(sel)
        \* Object.keys(distances).forEach visits the keys in the order of their insertion
        pushed(model, label) ==
            SelectSeq(keys, LAMBDA key :
                                /\ dist[key] # None
                                /\ Len(key) >= 3
                                /\ KeyModel(key) \in Range(activeModels)
                                /\ KeyModel(key) = model
                                /\ RelatedOf(related, KeyRow(key)) = label)
    IN  [model \in Range(activeModels) |->
            [related |-> PlotList(pushed(model, TRUE), dist),
             unrelated |-> PlotList(pushed(model, FALSE), dist)]]

\* Object.keys(distances).filter(key => distances[key] !== null && ... !== undefined).length
totalDistances(keys, dist) == Len(SelectSeq(keys, LAMBDA key : dist[key] # None))

\* the Plot button (lines 1270-1285): without a distance a toast and nothing else,
\* otherwise the plot section opens, or closes when it is open; the render of a
\* closed section computes no box plot
plotData ==
    /\ showPlot' = IF totalDistances(distanceKeys, distances) = 0 THEN showPlot ELSE ~showPlot
    /\ plotInput' = IF showPlot' THEN plotInput ELSE <<>>
    /\ plotStats' = IF showPlot' THEN plotStats ELSE None
    /\ lastOp' = [op |-> "plotData", cleared |-> 0,
                  toast |-> totalDistances(distanceKeys, distances) = 0]
    /\ UNCHANGED <<queryTexts, storedTexts, selectedModels, distances, distanceKeys, loading,
                   isGenerating, lastCalculatedState, relatedRows, optimalThresholds,
                   effectPending, runs, ops, fileVars, serverVars,
                   componentVars, storageVars>>

\* the open plot section is rendered with distances (lines 1611-1681): one of the
\* two box plots of one model is computed
ShowBoxPlot(model, label) ==
    /\ showPlot
    /\ totalDistances(distanceKeys, distances) # 0
    /\ model \in Range(activeModelsOf(selectedModels))
    /\ LET data == modelData(selectedModels, relatedRows, distanceKeys, distances)[model]
       IN  plotInput' = IF label THEN data.related ELSE data.unrelated
    /\ plotStats' = calculateBoxPlotStats(plotInput')
    /\ lastOp' = [op |-> "showBoxPlot", cleared |-> 0, model |-> model, related |-> label]
    /\ UNCHANGED <<queryTexts, storedTexts, selectedModels, distances, distanceKeys, loading,
                   isGenerating, lastCalculatedState, relatedRows, optimalThresholds,
                   effectPending, runs, ops, showPlot, fileVars, serverVars,
                   componentVars, storageVars>>

NextPlot ==
    \/ plotData
    \/ \E model \in ModelChoices, label \in BOOLEAN : ShowBoxPlot(model, label)

\* 0.25004 and 0.25005
PlotDistances == {25004, 25005}

\* every row labelled by toggleRelated or by an import, or some rows toggled to
\* related and the others never touched
PlotLabels ==
    [0..(ThresholdRows - 1) -> BOOLEAN] \cup PartialMaps(0..(ThresholdRows - 1), {TRUE})

\* the entries were set from the first row to the last, or from the last to the first
InitPlot == InitEntries(PlotDistances, PlotLabels, {"down", "up"})

SpecPlot == InitPlot /\ [][NextPlot]_vars

-----------------------------------------------------------------------------
(* The bound table under the assumption that a request in flight is answered: *)
(* each suspended call is eventually resumed, with a result or with a failure *)

\* the awaited request of call r settles (lines 1199-1206): it resolves or rejects
RequestSettles(r) ==
    \/ EmbeddingResolved(r)
    \/ \E d \in DistResults : DistanceResolved(r, d)
    \/ RequestFailed(r)

SpecBoundFair ==
    /\ SpecBound
    /\ WF_vars(ThresholdEffect)
    /\ \A r \in 1..MaxRuns : WF_vars(RequestSettles(r))

-----------------------------------------------------------------------------
(* ModelComparisonTable (client/src/components/model-comparison-table.tsx):   *)
(* rows of a model and the embedding of the input text generated with it.     *)
(* unnamed/part_001 is the same component with two input texts.               *)

MaxMutations == 2
MaxAddedRows == 1
ModelRowsUsed == 2

\* the models picked in the Select of a row: MODELS (lines 24-28)
ModelTableChoices == {Embedding3Small, Embedding3Large, EmbeddingAda002}

\* texts typed into the input box of the page; " " is a whitespace-only text
InputTexts == {" ", "b", "c"}

\* data.embedding of the answer to a generate request { text, model }: the vector
\* the provider computes for that text with that model (routes.ts 111-112, 125)
EmbeddingFor(text, model) == [text |-> text, model |-> model]

\* prev.map(row => row.id === rowId ? change(row) : row)
MapRow(rows, rowId, change(_)) ==
    [k \in 1..Len(rows) |-> IF rows[k].id = rowId THEN change(rows[k]) ELSE rows[k]]

\* handleModelChange (lines 68-84), called by the Select of a row on screen
modelTableHandleModelChange(rowId, model) ==
    /\ Len(mutations) < MaxMutations
    /\ \E k \in 1..Len(modelRows) : modelRows[k].id = rowId
    /\ LET changed == MapRow(modelRows, rowId,
                             LAMBDA row : [row EXCEPT !.model = model, !.embedding = None])
       IN  IF model # NoModel /\ Trim(inputText) # ""
           THEN /\ modelRows' = MapRow(changed, rowId, LAMBDA row : [row EXCEPT !.loading = TRUE])
                /\ mutations' = Append(mutations, [text |-> inputText, model |-> model,
                                                   rowId |-> rowId])
           ELSE /\ modelRows' = changed
                /\ mutations' = mutations
    /\ lastOp' = [op |-> "modelTableHandleModelChange", cleared |-> 0]
    /\ UNCHANGED <<queryTexts, storedTexts, selectedModels, distances, distanceKeys, loading, isGenerating,
                   lastCalculatedState, relatedRows, optimalThresholds, effectPending, runs, ops,
                   plotVars, fileVars, serverVars, inputText, calculatorRows, calculatorVars, storageVars>>

\* the generate request of a mutation answers: onSuccess (lines 44-55)
MutationSucceeds(k) ==
    /\ k \in 1..Len(mutations)
    /\ LET variables == mutations[k]
       IN  modelRows' =
               MapRow(modelRows, variables.rowId,
                      LAMBDA row : [row EXCEPT !.embedding =
                                                   Some(EmbeddingFor(variables.text, variables.model)),
                                               !.loading = FALSE])
    /\ mutations' = RemoveAt(mutations, k)
    /\ lastOp' = [op |-> "mutationSucceeds", cleared |-> 0]
    /\ UNCHANGED <<queryTexts, storedTexts, selectedModels, distances, distanceKeys, loading, isGenerating,
                   lastCalculatedState, relatedRows, optimalThresholds, effectPending, runs, ops,
                   plotVars, fileVars, serverVars, inputText, calculatorRows, calculatorVars, storageVars>>

\* the generate request of a mutation fails: onError (lines 56-65)
MutationFails(k) ==
    /\ k \in 1..Len(mutations)
    /\ modelRows' = MapRow(modelRows, mutations[k].rowId,
                           LAMBDA row : [row EXCEPT !.loading = FALSE])
    /\ mutations' = RemoveAt(mutations, k)
    /\ lastOp' = [op |-> "mutationFails", cleared |-> 0]
    /\ UNCHANGED <<queryTexts, storedTexts, selectedModels, distances, distanceKeys, loading, isGenerating,
                   lastCalculatedState, relatedRows, optimalThresholds, effectPending, runs, ops,
                   plotVars, fileVars, serverVars, inputText, calculatorRows, calculatorVars, storageVars>>

\* addRow (lines 105-116)
modelTableAddRow ==
    /\ Len(modelRows) < 3 + MaxAddedRows
    /\ modelRows' = Append(modelRows, [id |-> ToString(Len(modelRows) + 1), model |-> NoModel,
                                       embedding |-> None, loading |-> FALSE])
    /\ lastOp' = [op |-> "modelTableAddRow", cleared |-> 0]
    /\ UNCHANGED <<queryTexts, storedTexts, selectedModels, distances, distanceKeys, loading, isGenerating,
                   lastCalculatedState, relatedRows, optimalThresholds, effectPending, runs, ops,
                   plotVars, fileVars, serverVars, mutations, inputText, calculatorRows, calculatorVars,
                   storageVars>>

\* setInputText of the page (embeddings-playground.tsx line 29), called by the input
\* box on every change (lines 53-58): the table is rendered with the new inputText
setInputText(value) ==
    /\ inputText' = value
    /\ lastOp' = [op |-> "setInputText", cleared |-> 0]
    /\ UNCHANGED <<queryTexts, storedTexts, selectedModels, distances, distanceKeys, loading, isGenerating,
                   lastCalculatedState, relatedRows, optimalThresholds, effectPending, runs, ops,
                   plotVars, fileVars, serverVars, modelRows, mutations, calculatorRows, calculatorVars,
                   storageVars>>

\* the page mounted: three rows without a model, an empty input text
InitModelComparison ==
    /\ queryTexts = <<"">>
    /\ storedTexts = <<"">>
    /\ selectedModels = [k \in Range(ModelKeys) |-> NoModel]
    /\ distances = EmptyMap
    /\ distanceKeys = <<>>
    /\ loading = EmptyMap
    /\ isGenerating = FALSE
    /\ lastCalculatedState = EmptyMap
    /\ relatedRows = EmptyMap
    /\ optimalThresholds = EmptyMap
    /\ effectPending = FALSE
    /\ runs = <<>>
    /\ ops = 0
    /\ lastOp = [op |-> "init", cleared |-> 0]
    /\ showPlot = FALSE
    /\ plotInput = <<>>
    /\ plotStats = None
    /\ csvFile = None
    /\ request = None
    /\ response = None
    /\ InitModelTable
    /\ InitCalculator
    /\ InitStorage

NextModelComparison ==
    \/ \E k \in 1..ModelRowsUsed, model \in ModelTableChoices :
           modelTableHandleModelChange(ToString(k), model)
    \/ \E k \in 1..MaxMutations : MutationSucceeds(k)
    \/ \E k \in 1..MaxMutations : MutationFails(k)
    \/ modelTableAddRow
    \/ \E value \in InputTexts : setInputText(value)

SpecModelComparison == InitModelComparison /\ [][NextModelComparison]_vars

-----------------------------------------------------------------------------
(* The row-based comparison table (client/src/components/distance-calculator.tsx, *)
(* lines 211-587): rows addressed by their id                                 *)

MaxCalculatorRows == 3

\* number of user operations on the row-based table
MaxCalculatorOps == 6

\* texts typed into a cell of a row; a text is the sequence of its characters
CalculatorTexts == {<<"b">>}

\* texts pasted into a bulk upload box: "x\ny\nz" and " \nb "
BulkTexts == { <<"x", "\n", "y", "\n", "z">>, <<" ", "\n", "b", " ">> }

\* the columns of the table (line 473)
CalculatorColumns == <<"model1", "model2", "model3">>

\* the models picked in the Select of a column: MODELS (lines 218-222)
CalculatorModelChoices == {Embedding3Small, Embedding3Large, EmbeddingAda002}

\* a row without texts and results (lines 256-262, 388-394)
EmptyRow(id) ==
    [id |-> id, queryText |-> <<>>, storedText |-> <<>>, distances |-> EmptyMap,
     loading |-> EmptyMap]

\* addRow (lines 254-263)
calculatorAddRow ==
    /\ ops < MaxCalculatorOps
    /\ Len(calculatorRows) < MaxCalculatorRows
    /\ LET newId == ToString(Len(calculatorRows) + 1)
       IN  calculatorRows' = Append(calculatorRows, EmptyRow(newId))
    /\ ops' = ops + 1
    /\ lastOp' = [op |-> "calculatorAddRow", cleared |-> 0]
    /\ UNCHANGED <<queryTexts, storedTexts, selectedModels, distances, distanceKeys, loading, isGenerating,
                   lastCalculatedState, relatedRows, optimalThresholds, effectPending, runs,
                   plotVars, fileVars, serverVars, modelRows, mutations, inputText,
                   calculatorVars, storageVars>>

\* removeRow (lines 265-269)
calculatorRemoveRow(id) ==
    /\ ops < MaxCalculatorOps
    /\ calculatorRows' = IF Len(calculatorRows) > 1
                         THEN SelectSeq(calculatorRows, LAMBDA row : row.id # id)
                         ELSE calculatorRows
    /\ ops' = ops + 1
    /\ lastOp' = [op |-> "calculatorRemoveRow", cleared |-> 0]
    /\ UNCHANGED <<queryTexts, storedTexts, selectedModels, distances, distanceKeys, loading, isGenerating,
                   lastCalculatedState, relatedRows, optimalThresholds, effectPending, runs,
                   plotVars, fileVars, serverVars, modelRows, mutations, inputText,
                   calculatorVars, storageVars>>

\* { ...row, [field]: value }
WithText(row, field, value) ==
    IF field = "queryText" THEN [row EXCEPT !.queryText = value]
    ELSE [row EXCEPT !.storedText = value]

\* updateRowText (lines 271-275)
updateRowText(id, field, value) ==
    /\ ops < MaxCalculatorOps
    /\ calculatorRows' =
           [k \in 1..Len(calculatorRows) |->
               IF calculatorRows[k].id = id
               THEN WithText(calculatorRows[k], field, value)
               ELSE calculatorRows[k]]
    /\ ops' = ops + 1
    /\ lastOp' = [op |-> "updateRowText", cleared |-> 0]
    /\ UNCHANGED <<queryTexts, storedTexts, selectedModels, distances, distanceKeys, loading, isGenerating,
                   lastCalculatedState, relatedRows, optimalThresholds, effectPending, runs,
                   plotVars, fileVars, serverVars, modelRows, mutations, inputText,
                   calculatorVars, storageVars>>

\* handleModelChange of the row-based table (lines 277-279)
calculatorHandleModelChange(column, model) ==
    /\ ops < MaxCalculatorOps
    /\ calculatorModels' = [calculatorModels EXCEPT ![column] = model]
    /\ ops' = ops + 1
    /\ lastOp' = [op |-> "calculatorHandleModelChange", cleared |-> 0]
    /\ UNCHANGED <<queryTexts, storedTexts, selectedModels, distances, distanceKeys, loading, isGenerating,
                   lastCalculatedState, relatedRows, optimalThresholds, effectPending, runs,
                   plotVars, fileVars, serverVars, modelRows, mutations, inputText,
                   calculatorRows, calculatorGenerating, calculatorRun, storageVars>>

\* parseTextChunks (lines 375-377)
parseTextChunks(text) == SelectSeq(split(text, "\n"), LAMBDA chunk : Len(trim(chunk)) > 0)

\* handleBulkUpload (lines 379-405), called when a bulk upload box that holds more
\* than white space loses the focus (lines 448-453, 463-468)
handleBulkUpload(field, text) ==
    /\ ops < MaxCalculatorOps
    /\ LET chunks == parseTextChunks(text)
           neededRows == Max2(Len(chunks), Len(calculatorRows))
           newRows == [i \in 1..neededRows |->
                          IF i <= Len(calculatorRows) THEN calculatorRows[i]
                          ELSE EmptyRow(ToString(i))]
       IN  /\ neededRows <= MaxCalculatorRows
           /\ calculatorRows' =
                  IF Len(chunks) = 0 THEN calculatorRows
                  ELSE [i \in 1..neededRows |->
                           IF i <= Len(chunks) THEN WithText(newRows[i], field, chunks[i])
                           ELSE newRows[i]]
    /\ ops' = ops + 1
    /\ lastOp' = [op |-> "handleBulkUpload", cleared |-> 0]
    /\ UNCHANGED <<queryTexts, storedTexts, selectedModels, distances, distanceKeys, loading, isGenerating,
                   lastCalculatedState, relatedRows, optimalThresholds, effectPending, runs,
                   plotVars, fileVars, serverVars, modelRows, mutations, inputText,
                   calculatorVars, storageVars>>

\* the elements of a Set built from a list, in the order of their first occurrence
RECURSIVE UniqueOf(_)
UniqueOf(list) ==
    IF list = <<>> THEN <<>>
    ELSE LET before == UniqueOf(SubSeq(list, 1, Len(list) - 1))
         IN  IF list[Len(list)] \in Range(before) THEN before
             ELSE Append(before, list[Len(list)])

\* the texts one model's embeddings are requested for (lines 311-317)
RunQueryTexts(run) == UniqueOf([k \in 1..Len(run.validRows) |-> trim(run.validRows[k].queryText)])
RunStoredTexts(run) == UniqueOf([k \in 1..Len(run.validRows) |-> trim(run.validRows[k].storedText)])

\* the request the suspended call awaits (lines 325, 331, 341-344)
CalculatorRequest ==
    IF calculatorRun = <<>> THEN <<>>
    ELSE LET run == calculatorRun[1]
         IN  IF run.pc = "query"
             THEN <<[kind |-> "generate", text |-> RunQueryTexts(run)[run.i],
                     model |-> run.models[run.m]]>>
             ELSE IF run.pc = "stored"
             THEN <<[kind |-> "generate", text |-> RunStoredTexts(run)[run.i],
                     model |-> run.models[run.m]]>>
             ELSE <<[kind |-> "distance", rowId |-> run.validRows[run.i].id,
                     model |-> run.models[run.m]]>>

\* generateComparisons of the row-based table up to its first request (lines
\* 281-325); the button is disabled while isGenerating (line 417)
calculatorGenerateComparisons ==
    /\ ops < MaxCalculatorOps
    /\ ~calculatorGenerating
    /\ LET activeModels == SelectSeq([k \in 1..Len(CalculatorColumns) |->
                                         calculatorModels[CalculatorColumns[k]]],
                                     LAMBDA model : model # NoModel)
           validRows == SelectSeq(calculatorRows,
                                  LAMBDA row : trim(row.queryText) # <<>> /\ trim(row.storedText) # <<>>)
       IN  IF activeModels = <<>> \/ validRows = <<>>
           THEN UNCHANGED <<calculatorRows, calculatorGenerating, calculatorRun>>
           ELSE /\ calculatorGenerating' = TRUE
                /\ calculatorRows' =
                       [k \in 1..Len(calculatorRows) |->
                           [calculatorRows[k] EXCEPT
                               !.loading = [model \in Range(activeModels) |-> TRUE]]]
                /\ calculatorRun' = <<[models |-> activeModels, validRows |-> validRows,
                                       m |-> 1, pc |-> "query", i |-> 1]>>
    /\ ops' = ops + 1
    /\ lastOp' = [op |-> "calculatorGenerateComparisons", cleared |-> 0]
    /\ UNCHANGED <<queryTexts, storedTexts, selectedModels, distances, distanceKeys, loading, isGenerating,
                   lastCalculatedState, relatedRows, optimalThresholds, effectPending, runs,
                   plotVars, fileVars, serverVars, modelRows, mutations, inputText,
                   calculatorModels, storageVars>>

\* the awaited request answers (lines 325-356): the next request is sent; the
\* answer of a distance request is written to the rows with the id of its row,
\* and after the last one the finally ends the call (lines 369-371)
calculatorRequestResolves(distance) ==
    /\ calculatorRun # <<>>
    /\ LET run == calculatorRun[1]
           model == run.models[run.m]
       IN  IF run.pc = "query"
           THEN /\ calculatorRun' =
                       IF run.i < Len(RunQueryTexts(run))
                       THEN <<[run EXCEPT !.i = run.i + 1]>>
                       ELSE <<[run EXCEPT !.pc = "stored", !.i = 1]>>
                /\ UNCHANGED <<calculatorRows, calculatorGenerating>>
           ELSE IF run.pc = "stored"
           THEN /\ calculatorRun' =
                       IF run.i < Len(RunStoredTexts(run))
                       THEN <<[run EXCEPT !.i = run.i + 1]>>
                       ELSE <<[run EXCEPT !.pc = "distance", !.i = 1]>>
                /\ UNCHANGED <<calculatorRows, calculatorGenerating>>
           ELSE /\ calculatorRows' =
                       [k \in 1..Len(calculatorRows) |->
                           IF calculatorRows[k].id = run.validRows[run.i].id
                           THEN [calculatorRows[k] EXCEPT
                                    !.distances = Put(calculatorRows[k].distances, model,
                                                      distance),
                                    !.loading = Put(calculatorRows[k].loading, model, FALSE)]
                           ELSE calculatorRows[k]]
                /\ calculatorRun' =
                       IF run.i < Len(run.validRows)
                       THEN <<[run EXCEPT !.i = run.i + 1]>>
                       ELSE IF run.m < Len(run.models)
                       THEN <<[run EXCEPT !.m = run.m + 1, !.pc = "query", !.i = 1]>>
                       ELSE <<>>
                /\ calculatorGenerating' = (calculatorRun' # <<>>)
    /\ lastOp' = [op |-> "calculatorRequestResolves", cleared |-> 0]
    /\ UNCHANGED <<queryTexts, storedTexts, selectedModels, distances, distanceKeys, loading, isGenerating,
                   lastCalculatedState, relatedRows, optimalThresholds, effectPending, runs, ops,
                   plotVars, fileVars, serverVars, modelRows, mutations, inputText,
                   calculatorModels, storageVars>>

\* the awaited request fails (lines 363-371): a toast, and the finally ends the
\* call; the loading flags stay as they are
calculatorRequestFails ==
    /\ calculatorRun # <<>>
    /\ calculatorRun' = <<>>
    /\ calculatorGenerating' = FALSE
    /\ lastOp' = [op |-> "calculatorRequestFails", cleared |-> 0]
    /\ UNCHANGED <<queryTexts, storedTexts, selectedModels, distances, distanceKeys, loading, isGenerating,
                   lastCalculatedState, relatedRows, optimalThresholds, effectPending, runs, ops,
                   plotVars, fileVars, serverVars, modelRows, mutations, inputText,
                   calculatorRows, calculatorModels, storageVars>>

\* the ids of the rows on screen: the buttons and text areas of a row call the
\* handlers with row.id (lines 499-561)
CalculatorIds == { calculatorRows[k].id : k \in 1..Len(calculatorRows) }

NextCalculator ==
    \/ calculatorAddRow
    \/ \E id \in CalculatorIds : calculatorRemoveRow(id)
    \/ \E id \in CalculatorIds, field \in {"queryText", "storedText"}, value \in CalculatorTexts :
           updateRowText(id, field, value)
    \/ \E column \in Range(CalculatorColumns), model \in CalculatorModelChoices :
           calculatorHandleModelChange(column, model)
    \/ \E field \in {"queryText", "storedText"}, text \in BulkTexts : handleBulkUpload(field, text)
    \/ calculatorGenerateComparisons
    \/ \E distance \in DistResults : calculatorRequestResolves(distance)
    \/ calculatorRequestFails

SpecCalculator == Init /\ [][NextCalculator]_vars

-----------------------------------------------------------------------------
(* The server: POST /api/embeddings/generate (server/routes.ts 48-138) and    *)
(* MemStorage (server/storage.ts).  A text is given by its length, the only   *)
(* thing the endpoint reads of it before it hands it to the provider.         *)

MaxSaved == 3
MaxHandlers == 2

\* tokenCount > 500 (routes.ts 55)
TokenLimit == 500

\* z.string().min(1).max(10000) (generateEmbeddingSchema)
MinTextLength == 1
MaxTextLength == 10000

\* a text of n characters
TextOfLength(n) == [length |-> n]

\* lengths of the texts posted: empty, short, 500 tokens, 501 tokens, beyond the schema
TextLengths == {0, 1, 2000, 2001, 10001}

\* models posted: one served by OpenAI, one by Hugging Face
ServerModels == {Embedding3Small, BgeSmallEn}

\* a count that rounds down
countTokens_Floor(text) == text.length \div 4

\* countTokens (routes.ts 16-20): Math.ceil(text.length / 4)
countTokens(text) == (text.length + 3) \div 4

\* generateEmbeddingSchema.parse(req.body) succeeds
SchemaAccepts(text, model) ==
    /\ text.length >= MinTextLength
    /\ text.length <= MaxTextLength
    /\ model \in {Embedding3Small, Embedding3Large, EmbeddingAda002, BgeSmallEn}

\* a save that does not advance the counter
saveEmbedding_NoIncrement(insertEmbedding) ==
    LET id == currentId
    IN  /\ embeddings' = Put(embeddings, id,
                             [text |-> insertEmbedding.text, model |-> insertEmbedding.model,
                              embedding |-> insertEmbedding.embedding,
                              tokenCount |-> insertEmbedding.tokenCount, id |-> id])
        /\ currentId' = currentId

\* MemStorage.saveEmbedding (storage.ts 20-25)
saveEmbedding(insertEmbedding) ==
    LET id == currentId
    IN  /\ embeddings' = Put(embeddings, id,
                             [text |-> insertEmbedding.text, model |-> insertEmbedding.model,
                              embedding |-> insertEmbedding.embedding,
                              tokenCount |-> insertEmbedding.tokenCount, id |-> id])
        /\ currentId' = currentId + 1

\* MemStorage.getEmbedding (storage.ts 27-29): None is undefined
getEmbedding(id) == IF id \in DOMAIN embeddings THEN Some(embeddings[id]) ELSE None

\* Array.from(this.embeddings.values()): the values in insertion order.  Ids are
\* inserted in ascending order and a set on an existing key keeps its place.
EmbeddingValues ==
    LET ids == DOMAIN embeddings
        ordered == [k \in 1..Cardinality(ids) |->
                       CHOOSE id \in ids : Cardinality({ o \in ids : o < id }) = k - 1]
    IN  [k \in 1..Cardinality(ids) |-> embeddings[ordered[k]]]

\* MemStorage.getEmbeddingsByModel (storage.ts 31-35)
getEmbeddingsByModel(model) == SelectSeq(EmbeddingValues, LAMBDA embedding : embedding.model = model)

\* the handler up to its provider call (routes.ts 49-111): a body the schema
\* refuses is answered 500 by the catch, a text over the limit 400, otherwise the
\* handler is suspended at the provider
PostGenerate(text, model) ==
    /\ currentId + Len(handlers) <= MaxSaved
    /\ Len(handlers) < MaxHandlers
    /\ request' = Some([text |-> text, model |-> model])
    /\ IF ~SchemaAccepts(text, model)
       THEN /\ response' = Some([status |-> 500, body |-> None])
            /\ handlers' = handlers
       ELSE IF countTokens(text) > TokenLimit
       THEN /\ response' = Some([status |-> 400, body |-> None])
            /\ handlers' = handlers
       ELSE /\ response' = None
            /\ handlers' = Append(handlers, [text |-> text, model |-> model,
                                             tokenCount |-> countTokens(text),
                                             pc |-> "provider", embedding |-> None])
    /\ lastOp' = [op |-> "postGenerate", cleared |-> 0]
    /\ UNCHANGED <<queryTexts, storedTexts, selectedModels, distances, distanceKeys, loading, isGenerating,
                   lastCalculatedState, relatedRows, optimalThresholds, effectPending, runs, ops,
                   plotVars, fileVars, componentVars, embeddings, currentId>>

\* the provider answers handler k (routes.ts 112-122): the handler resumes and
\* calls storage.saveEmbedding, which saves at once, and is suspended again at
\* the await of the save; nothing is sent yet
ProviderAnswers(k) ==
    /\ k \in 1..Len(handlers)
    /\ handlers[k].pc = "provider"
    /\ LET h == handlers[k]
           embedding == EmbeddingFor(h.text, h.model)
       IN  /\ saveEmbedding([text |-> h.text, model |-> h.model, embedding |-> embedding,
                             tokenCount |-> h.tokenCount])
           /\ handlers' = [handlers EXCEPT ![k].pc = "saved", ![k].embedding = Some(embedding)]
    /\ lastOp' = [op |-> "providerAnswers", cleared |-> 0]
    /\ UNCHANGED <<queryTexts, storedTexts, selectedModels, distances, distanceKeys, loading, isGenerating,
                   lastCalculatedState, relatedRows, optimalThresholds, effectPending, runs, ops,
                   plotVars, fileVars, componentVars, request, response>>

\* handler k resumes after the await of the save and sends the result
\* (routes.ts 124-131)
SendResult(k) ==
    /\ k \in 1..Len(handlers)
    /\ handlers[k].pc = "saved"
    /\ response' = Some([status |-> 200,
                         body |-> Some([embedding |-> handlers[k].embedding[1],
                                        tokenCount |-> handlers[k].tokenCount])])
    /\ handlers' = RemoveAt(handlers, k)
    /\ lastOp' = [op |-> "sendResult", cleared |-> 0]
    /\ UNCHANGED <<queryTexts, storedTexts, selectedModels, distances, distanceKeys, loading, isGenerating,
                   lastCalculatedState, relatedRows, optimalThresholds, effectPending, runs, ops,
                   plotVars, fileVars, componentVars, request, embeddings, currentId>>

\* the provider call of handler k throws: the catch answers 500 (routes.ts 81-83, 132-137)
ProviderFails(k) ==
    /\ k \in 1..Len(handlers)
    /\ handlers[k].pc = "provider"
    /\ response' = Some([status |-> 500, body |-> None])
    /\ handlers' = RemoveAt(handlers, k)
    /\ lastOp' = [op |-> "providerFails", cleared |-> 0]
    /\ UNCHANGED <<queryTexts, storedTexts, selectedModels, distances, distanceKeys, loading, isGenerating,
                   lastCalculatedState, relatedRows, optimalThresholds, effectPending, runs, ops,
                   plotVars, fileVars, componentVars, request, embeddings, currentId>>

\* storage.getEmbedding(id) is called
GetEmbedding(id) ==
    /\ request' = Some([id |-> id])
    /\ response' = Some([status |-> 200, body |-> getEmbedding(id)])
    /\ lastOp' = [op |-> "getEmbedding", cleared |-> 0]
    /\ UNCHANGED <<queryTexts, storedTexts, selectedModels, distances, distanceKeys, loading, isGenerating,
                   lastCalculatedState, relatedRows, optimalThresholds, effectPending, runs, ops,
                   plotVars, fileVars, componentVars, storageVars>>

\* storage.getEmbeddingsByModel(model) is called
GetEmbeddingsByModel(model) ==
    /\ request' = Some([model |-> model])
    /\ response' = Some([status |-> 200, body |-> getEmbeddingsByModel(model)])
    /\ lastOp' = [op |-> "getEmbeddingsByModel", cleared |-> 0]
    /\ UNCHANGED <<queryTexts, storedTexts, selectedModels, distances, distanceKeys, loading, isGenerating,
                   lastCalculatedState, relatedRows, optimalThresholds, effectPending, runs, ops,
                   plotVars, fileVars, componentVars, storageVars>>

NextServer ==
    \/ \E n \in TextLengths, model \in ServerModels : PostGenerate(TextOfLength(n), model)
    \/ \E k \in 1..MaxHandlers : ProviderAnswers(k)
    \/ \E k \in 1..MaxHandlers : SendResult(k)
    \/ \E k \in 1..MaxHandlers : ProviderFails(k)
    \/ \E id \in 1..(MaxSaved + 1) : GetEmbedding(id)
    \/ \E model \in ServerModels : GetEmbeddingsByModel(model)

SpecServer == Init /\ [][NextServer]_vars

-----------------------------------------------------------------------------
(* Claims *)

\* C1: a result that arrives for a slot invalidated while its fetch was in flight
\* is discarded: it does not change the slot's distance entry.
C1_StaleResultDiscarded ==
    [][\A r \in 1..MaxRuns, d \in DistResults :
          (r <= Len(runs) /\ runs[r].stale /\ DistanceResolved(r, d))
              => LET w == Head(runs[r].todo)
                 IN  EntryOf(distances', w.row, w.model) = EntryOf(distances, w.row, w.model)]_vars

\* C2: editing a text of pair p leaves no distance entry of pair p set, for any
\* model, bound to a slot or not.
C2_EditResetsEveryEntryOfPair ==
    [][\A index \in 0..(MaxRows - 1), value \in TextValues :
          (updateQueryText(index, value) \/ updateStoredText(index, value))
              => \A key \in DOMAIN distances' :
                     HasValue(distances', key) => KeyRow(key) # index]_vars

\* C3: after a row is removed, every remaining pair has only the distance entries
\* and the label it had before the removal (or unset / false).
C3_PairIdentityStable ==
    [][\A index \in 0..(MaxRows - 1) :
          (removeRow(index) /\ Len(queryTexts') < Len(queryTexts))
              => \A j \in 0..(Len(queryTexts') - 1) :
                     LET before == IF j < index THEN j ELSE j + 1
                     IN  /\ RelatedOf(relatedRows', j) => RelatedOf(relatedRows, before)
                         /\ \A model \in ModelChoices :
                                EntryOf(distances', j, model)
                                    \in {None, EntryOf(distances, before, model)}]_vars

\* C4: reassigning a slot from model M to a different model removes every distance
\* entry of M and leaves every entry of every other model as it was.
C4_ReassignClearsOldModelOnly ==
    [][\A column \in SlotChoices, model \in ModelChoices :
          (handleModelChange(column, model)
             /\ selectedModels[column] # model /\ selectedModels[column] # NoModel)
              => /\ \A key \in DOMAIN distances' : KeyModel(key) # selectedModels[column]
                 /\ \A key \in DOMAIN distances :
                        KeyModel(key) # selectedModels[column]
                            => key \in DOMAIN distances' /\ distances'[key] = distances[key]
                 /\ DOMAIN distances' \subseteq DOMAIN distances]_vars

\* C4 witness: a reassignment has just removed entries of the old model while
\* entries of another model are still in the table.
C4_Witness ==
    /\ lastOp.op = "handleModelChange"
    /\ lastOp.cleared > 0
    /\ \E key \in DOMAIN distances : HasValue(distances, key)

\* the rows that count for the threshold of a model: labelled related, with a value
RelatedValued(model) ==
    { i \in 0..Max2(MaxRows, ThresholdRows) :
        RelatedOf(relatedRows, i) /\ EntryOf(distances, i, model) # None }

ThresholdsComputed == lastOp.op = "calculateOptimalThresholds"

ActiveModels == { selectedModels[k] : k \in Range(ModelKeys) } \ {NoModel}

\* related distances 0.10, 0.25, 0.18 for one model, and an unrelated 0.90
ThresholdExample ==
    calculateOptimalThresholds(
        [k \in Range(ModelKeys) |-> IF k = "model1" THEN Embedding3Small ELSE NoModel],
        [i \in 0..3 |-> i < 3],
        [key \in { Key(i, i, Embedding3Small) : i \in 0..3 } |->
            Some(IF key[1] = "0" THEN 10000 ELSE IF key[1] = "1" THEN 25000
                 ELSE IF key[1] = "2" THEN 18000 ELSE 90000)])[Embedding3Small]

\* C5: for a model with a related pair that has a value, the threshold is
\* round((m + 0.001) * 10000) / 10000 for m the largest such related distance
\* (0.2510 for related distances 0.10, 0.25, 0.18): the multiple of 10^-4 nearest
\* to m + 0.001, and one of the two neighbours when m + 0.001 lies half-way, where
\* the doubles of the sum and the product decide; unrelated pairs and other
\* models do not enter.
C5_ThresholdIsRoundedMaxPlusEpsilon ==
    /\ ThresholdExample = Some(25100)
    /\ ThresholdsComputed =>
        \A model \in ActiveModels :
            RelatedValued(model) # {} =>
                \E i \in RelatedValued(model) :
                    LET m == EntryOf(distances, i, model)[1]
                    IN  /\ \A j \in RelatedValued(model) : EntryOf(distances, j, model)[1] <= m
                        /\ optimalThresholds[model] # None
                        /\ LET t == optimalThresholds[model][1]
                           IN  t % 10 = 0 /\ t - 5 <= m + 100 /\ m + 100 <= t + 5

\* C5 witness: a threshold computed from two related distances that differ, on a
\* table where another model has entries too.
C5_Witness ==
    /\ ThresholdsComputed
    /\ \E model \in ActiveModels :
           /\ \E i, j \in RelatedValued(model) :
                  EntryOf(distances, i, model)[1] < EntryOf(distances, j, model)[1]
           /\ \E key \in DOMAIN distances : HasValue(distances, key) /\ KeyModel(key) # model

\* C6: a model with no pair that is both related and valued has threshold null.
C6_NoRelatedValueNoThreshold ==
    ThresholdsComputed =>
        \A model \in ActiveModels :
            RelatedValued(model) = {} => optimalThresholds[model] = None

\* C6 witness: a null threshold for a model whose unrelated pairs have values.
C6_Witness ==
    /\ ThresholdsComputed
    /\ \E model \in ActiveModels :
           /\ RelatedValued(model) = {}
           /\ optimalThresholds[model] = None
           /\ \E i \in 0..(ThresholdRows - 1) : EntryOf(distances, i, model) # None

\* C7: a threshold that is set is strictly greater than every related distance.
C7_ThresholdAboveRelated ==
    ThresholdsComputed =>
        \A model \in ActiveModels :
            optimalThresholds[model] # None =>
                \A i \in RelatedValued(model) :
                    EntryOf(distances, i, model)[1] < optimalThresholds[model][1]

\* C7 witness: a set threshold over a related distance that is no multiple of 10^-4.
C7_Witness ==
    /\ ThresholdsComputed
    /\ \E model \in ActiveModels :
           /\ optimalThresholds[model] # None
           /\ \E i \in RelatedValued(model) : EntryOf(distances, i, model)[1] % 10 # 0

\* C8: the threshold shown and exported for every bound model is the one that
\* calculateOptimalThresholds yields on the current distances, labels and models.
C8_ThresholdsCurrent ==
    \A modelKey \in Range(ModelKeys) :
        LET model == selectedModels[modelKey]
            current == calculateOptimalThresholds(selectedModels, relatedRows, distances)
        IN  model # NoModel =>
                /\ ScreenThreshold(modelKey) = current[model]
                /\ ExportThreshold(model) =
                       IF current[model] = None THEN None ELSE Some(current[model][1] \div 10)

\* number of elements of the input below, or at most, a value
PlotCountLT(v) == Cardinality({ k \in 1..Len(plotInput) : plotInput[k] < v })
PlotCountLE(v) == Cardinality({ k \in 1..Len(plotInput) : plotInput[k] <= v })

\* v is the element at zero-based index i of the ascending order of the input
PlotAtRank(i, v) ==
    /\ \E k \in 1..Len(plotInput) : plotInput[k] = v
    /\ PlotCountLT(v) <= i
    /\ i < PlotCountLE(v)

\* C10: for a non-empty list of n values calculateBoxPlotStats yields the elements
\* at indices 0, floor(n/4), floor(n/2), floor(3n/4) and n-1 of the ascending order
\* and count n (3, 5, 7 between 1 and 8 for the list 1..8); for the empty list, null.
C10_BoxPlotNearestRank ==
    /\ calculateBoxPlotStats(<<1, 2, 3, 4, 5, 6, 7, 8>>) =
           Some([min |-> 1, q1 |-> 3, median |-> 5, q3 |-> 7, max |-> 8, count |-> 8])
    /\ lastOp.op = "calculateBoxPlotStats" =>
           IF plotInput = <<>> THEN plotStats = None
           ELSE /\ plotStats # None
                /\ LET stats == plotStats[1]
                       n == Len(plotInput)
                   IN  /\ PlotAtRank(0, stats.min)
                       /\ PlotAtRank(n \div 4, stats.q1)
                       /\ PlotAtRank(n \div 2, stats.median)
                       /\ PlotAtRank((3 * n) \div 4, stats.q3)
                       /\ PlotAtRank(n - 1, stats.max)
                       /\ stats.count = n

\* C10 witness: statistics of a list given in descending order whose quartiles differ.
C10_Witness ==
    /\ lastOp.op = "calculateBoxPlotStats"
    /\ plotStats # None
    /\ plotInput[1] > plotInput[Len(plotInput)]
    /\ plotStats[1].q1 < plotStats[1].median
    /\ plotStats[1].median < plotStats[1].q3

\* value and word are equal up to the case of their letters
SameIgnoringCase(value, word) ==
    /\ Len(value) = Len(word)
    /\ \A k \in 1..Len(word) :
           \/ value[k] = word[k]
           \/ \E j \in 1..Len(LowerCase) : LowerCase[j] = word[k] /\ UpperCase[j] = value[k]

FileUploaded == lastOp.op = "handleCSVUpload"

\* the line of the file that pair k of the table was read from: the pairs are the
\* last lines of the file (a first line taken for a header yields no pair)
LineOfPair(cells, k) == cells[k + Len(cells) - Len(queryTexts)]

\* C11: after the import of a file, a pair is labelled related if and only if the
\* Related cell of its line is "yes" or "related" up to case; any other cell
\* (empty, "no", "true", "1", other text) leaves it unrelated.
C11_RelatedIffYesOrRelated ==
    FileUploaded =>
        \A withHeader \in BOOLEAN, cells \in CsvCellFiles :
            csvFile = Some(CsvText(withHeader, cells)) =>
                \A k \in 1..Len(queryTexts) :
                    RelatedOf(relatedRows, k - 1) <=>
                        \/ SameIgnoringCase(LineOfPair(cells, k).related, <<"y", "e", "s">>)
                        \/ SameIgnoringCase(LineOfPair(cells, k).related, <<"r", "e", "l", "a", "t", "e", "d">>)

\* C11 witness: a file with a header whose first line says "RELATED" and whose
\* second line says "true" has been imported: the first pair is related, the second not.
C11_Witness ==
    /\ FileUploaded
    /\ \E cells \in CsvCellFiles :
           /\ csvFile = Some(CsvText(TRUE, cells))
           /\ Len(cells) = 2
           /\ cells[1].related = <<"R", "E", "L", "A", "T", "E", "D">>
           /\ cells[2].related = <<"t", "r", "u", "e">>
           /\ RelatedOf(relatedRows, 0)
           /\ ~RelatedOf(relatedRows, 1)

\* C12: after the import of a file, a pair whose Related cell is "Yes", "Related"
\* or another truthy word ("true", "1") is labelled related.
C12_TruthyCellIsRelated ==
    FileUploaded =>
        \A withHeader \in BOOLEAN, cells \in CsvCellFiles :
            csvFile = Some(CsvText(withHeader, cells)) =>
                \A k \in 1..Len(queryTexts) :
                    (\E word \in {<<"y", "e", "s">>, <<"r", "e", "l", "a", "t", "e", "d">>, <<"t", "r", "u", "e">>, <<"1">>} : SameIgnoringCase(LineOfPair(cells, k).related, word))
                        => RelatedOf(relatedRows, k - 1)

\* C13: an import replaces the whole label set in its one step: afterwards an index
\* reads related exactly when the imported file marks it, whatever was labelled before.
C13_ImportReplacesLabels ==
    [][\A rows \in CsvFiles :
          handleCSVUpload(rows) =>
              \A i \in DOMAIN relatedRows \cup DOMAIN relatedRows' \cup 0..Len(rows) :
                  RelatedOf(relatedRows', i) <=> (i < Len(rows) /\ rows[i + 1].related)]_vars

\* C13 witness: an import has just dropped a label set before it while the file
\* marks another pair related.
C13_Witness ==
    /\ lastOp.op = "handleCSVUpload"
    /\ lastOp.unlabelled > 0
    /\ \E i \in DOMAIN relatedRows : relatedRows[i]

\* C14: importing the file that downloadCSV has just written of the table leaves
\* the table with the same query and stored texts, row for row, and the same
\* label for every pair.
C14_ExportImportRoundTrip ==
    [][(lastOp.op = "downloadCSV" /\ UploadFile) =>
          /\ queryTexts' = queryTexts
          /\ storedTexts' = storedTexts
          /\ \A i \in 0..(Len(queryTexts) - 1) :
                 RelatedOf(relatedRows', i) <=> RelatedOf(relatedRows, i)]_vars

\* the cell of slot (rowIndex, model) as the table renders it (lines 1506-1553):
\* "No model" for an unbound model first, then '-' when the query or the stored
\* text of the row is missing or blank, and only then the spinner of the
\* loading flag, the distance entry, or '-' when there is neither
SlotState(q, s, ld, dist, rowIndex, model) ==
    LET key == Key(rowIndex, rowIndex, model)
    IN  IF model = NoModel THEN "NoModel"
        ELSE IF TextAt(q, rowIndex) = "" \/ TextAt(s, rowIndex) = "" THEN "Unset"
        ELSE IF key \in DOMAIN ld /\ ld[key] THEN "Pending"
        ELSE IF HasValue(dist, key) THEN "Value"
        ELSE "Unset"

\* the cell of slot (rowIndex, model) before and after a step
SlotBefore(rowIndex, model) ==
    SlotState(queryTexts, storedTexts, loading, distances, rowIndex, model)

SlotAfter(rowIndex, model) ==
    SlotState(queryTexts', storedTexts', loading', distances', rowIndex, model)

\* C15: a slot goes Unset -> Pending -> Value or Error: the request that starts a
\* computation makes the slot Pending, a failed computation leaves the slot in an
\* Error state, and a slot gets a Value only from Pending.
C15_SlotStateMachine ==
    [][/\ generateComparisons =>
              \A r \in 1..Len(runs') :
                  LET w == Head(runs'[r].todo)
                  IN  r > Len(runs) => SlotAfter(w.row, w.model) = "Pending"
       /\ \A r \in 1..MaxRuns :
              RequestFailed(r) =>
                  LET w == Head(runs[r].todo)
                  IN  SlotAfter(w.row, w.model) = "Error"
       /\ \A rowIndex \in 0..(MaxRows - 1), model \in ModelChoices :
              (SlotAfter(rowIndex, model) = "Value" /\ SlotBefore(rowIndex, model) # "Value")
                  => SlotBefore(rowIndex, model) = "Pending"]_vars

\* a pair with an empty (whitespace-only) query or stored text
EmptyPair(rowIndex) == TextAt(queryTexts, rowIndex) = "" \/ TextAt(storedTexts, rowIndex) = ""

\* C16: no computation is started for a slot whose pair has an empty text, and in
\* every state such a slot holds no value, also when the text was emptied while a
\* computation was running.
C16_EmptyPairHoldsNoValue ==
    /\ [](\A rowIndex \in 0..(MaxRows - 1), model \in ModelChoices :
              EmptyPair(rowIndex) => EntryOf(distances, rowIndex, model) = None)
    /\ [][\A r \in 1..Len(runs') :
              r > Len(runs) =>
                  \A k \in 1..Len(runs'[r].todo) :
                      runs'[r].todo[k].queryText # "" /\ runs'[r].todo[k].storedText # ""]_vars

\* C17: a request is skipped for a slot only when the triple remembered for it is
\* the pair's current texts and model and the value written with that triple is
\* still held; and after an edit of a pair's text the next request for each of its
\* bound slots is not skipped.
C17_ShortCircuitNeverMasks ==
    /\ [](\A rowIndex \in 0..(MaxRows - 1), model \in ModelChoices :
              (/\ rowIndex < maxRows
               /\ ~EmptyPair(rowIndex)
               /\ ~needsRecalculation(queryTexts, storedTexts, lastCalculatedState, rowIndex, model))
                  => Key(rowIndex, rowIndex, model) \in DOMAIN distances)
    /\ [][\A index \in 0..(MaxRows - 1), value \in TextValues :
              (updateQueryText(index, value) \/ updateStoredText(index, value))
                  => \A model \in Range(activeModelsOf(selectedModels)) :
                         (TextAt(queryTexts', index) # "" /\ TextAt(storedTexts', index) # "")
                             => needsRecalculation(queryTexts', storedTexts', lastCalculatedState',
                                                   index, model)]_vars

\* C17 witness: on a table whose pairs have been computed, a pair has been edited
\* twice (emptied and filled again); its slot is unset and due for recomputation
\* while the other pair keeps its value.
C17_Witness ==
    /\ lastOp.op \in {"updateQueryText", "updateStoredText"}
    /\ ops >= 3
    /\ \E rowIndex \in 0..(MaxRows - 1) :
           /\ rowIndex < maxRows
           /\ ~EmptyPair(rowIndex)
           /\ lastOp.cleared = 0
           /\ EntryOf(distances, rowIndex, Embedding3Small) = None
           /\ needsRecalculation(queryTexts, storedTexts, lastCalculatedState, rowIndex, Embedding3Small)
           /\ \E other \in 0..(MaxRows - 1) :
                  other # rowIndex /\ EntryOf(distances, other, Embedding3Small) # None

\* C18: a failed computation changes no distance entry, and the loop that made
\* it goes on to its next eligible slot, whose computation is started (its
\* loading flag is set).
C18_ErrorsAreLocal ==
    [][\A r \in 1..MaxRuns :
          RequestFailed(r) =>
              /\ distances' = distances
              /\ lastCalculatedState' = lastCalculatedState
              /\ LET rest == Tail(runs[r].todo)
                 IN  rest # <<>> =>
                         /\ r <= Len(runs')
                         /\ runs'[r].todo = rest
                         /\ LET key == Key(rest[1].row, rest[1].row, rest[1].model)
                            IN  key \in DOMAIN loading' /\ loading'[key]]_vars

\* C18 witness: after one click on Show Cosine Distances the first pair has no
\* value (its computation failed) and the second pair has been computed.
C18_Witness ==
    /\ ops = 1
    /\ lastOp.op = "distanceResolved"
    /\ Len(queryTexts) = 2
    /\ EntryOf(distances, 0, Embedding3Small) = None
    /\ EntryOf(distances, 1, Embedding3Small) # None

\* whether every component of a vector is zero
ZeroVector(v) == \A i \in 1..Len(v) : v[i] = 0

\* C19: for two vectors of differing length both cosine distance functions throw
\* the dimension error and return nothing, and the endpoint answers with an error
\* status and no distance.
C19_DimensionMismatchFails ==
    response # None =>
        LET a == request[1].embeddingA
            b == request[1].embeddingB
            answer == response[1]
        IN  Len(a) # Len(b) =>
                /\ answer.helper.kind = "throw"
                /\ answer.helper.message = "Vectors must have the same dimensions"
                /\ answer.utility.kind = "throw"
                /\ answer.utility.message = "Vectors must have the same dimensions"
                /\ answer.endpoint.status >= 400
                /\ ~answer.endpoint.hasDistance

\* C19 witness: a request with vectors of lengths 1 and 2, neither zero, answered 400.
C19_Witness ==
    /\ response # None
    /\ Len(request[1].embeddingA) = 1
    /\ Len(request[1].embeddingB) = 2
    /\ ~ZeroVector(request[1].embeddingA)
    /\ ~ZeroVector(request[1].embeddingB)
    /\ response[1].endpoint.status = 400
    /\ response[1].endpoint.message = "Embedding dimensions must match. A: 1, B: 2"

\* C20: when a vector has zero magnitude, every cosine distance function throws
\* instead of returning a value, and so the endpoint answers with an error.
C20_ZeroMagnitudeFails ==
    response # None =>
        LET a == request[1].embeddingA
            b == request[1].embeddingB
            answer == response[1]
        IN  (Len(a) = Len(b) /\ (ZeroVector(a) \/ ZeroVector(b))) =>
                /\ answer.utility.kind = "throw"
                /\ answer.helper.kind = "throw"
                /\ answer.endpoint.status >= 400
                /\ ~answer.endpoint.hasDistance

\* C21: the import takes every line of the file as a pair of its own: after the
\* import of a file of n data lines the table holds n pairs, and pair k holds the
\* query and stored text of line k, whatever the other lines hold.
C21_EveryLineYieldsItsPair ==
    FileUploaded =>
        \A withHeader \in BOOLEAN, cells \in CsvCellFiles :
            csvFile = Some(CsvText(withHeader, cells)) =>
                /\ Len(queryTexts) = Len(cells)
                /\ Len(storedTexts) = Len(cells)
                /\ \A k \in 1..Len(cells) :
                       /\ queryTexts[k] = cells[k].queryText
                       /\ storedTexts[k] = cells[k].storedText

\* C22: a completion writes the entry of its own slot and no other: when the
\* distance request of a computation answers, the slot of that computation holds
\* the answer, and every other entry of the matrix, among them the entries written
\* by computations that ran at the same time, is still there with its value.
C22_CompletionsWriteDisjointEntries ==
    [][\A r \in 1..MaxRuns, d \in DistResults :
          DistanceResolved(r, d) =>
              LET key == ItemKey(Head(runs[r].todo))
              IN  /\ HasValue(distances', key)
                  /\ distances'[key] = Some(d)
                  /\ \A other \in DOMAIN distances \ {key} :
                         /\ other \in DOMAIN distances'
                         /\ distances'[other] = distances[other]]_vars

\* C22 witness: a computation has just written its entry while the computation of
\* another slot, still without an entry, waits for its distance.
C22_Witness ==
    /\ lastOp.op = "distanceResolved"
    /\ \E key \in DOMAIN distances : distances[key] # None
    /\ \E r \in 1..Len(runs) :
           /\ runs[r].pc = "distance"
           /\ ~HasValue(distances, ItemKey(Head(runs[r].todo)))

\* how many times x occurs in a list
CountIn(list, x) == Cardinality({ k \in 1..Len(list) : list[k] = x })

\* the rows whose entry for the model has a value and whose label reads as given
RowsOfClass(model, label) ==
    { i \in 0..(ThresholdRows - 1) :
        /\ HasValue(distances, Key(i, i, model))
        /\ RelatedOf(relatedRows, i) = label }

\* a list holds one element per row of the set, the value of that row's entry
ListsExactly(list, model, rows) ==
    /\ Len(list) = Cardinality(rows)
    /\ \A d \in ThresholdDistances :
           CountIn(list, d) = Cardinality({ i \in rows : distances[Key(i, i, model)] = Some(d) })

\* the pairs ("cat","feline") related at 0.05 and ("cat","car") unrelated at 0.80
PlotExample ==
    LET sel == [k \in Range(ModelKeys) |-> IF k = "model1" THEN Embedding3Small ELSE NoModel]
        related == [i \in 0..1 |-> i = 0]
        dist == [key \in { Key(i, i, Embedding3Small) : i \in 0..1 } |->
                    Some(IF key[1] = "0" THEN 5000 ELSE 80000)]
        data == modelData(sel, related, RowOrder(dist), dist)[Embedding3Small]
    IN  /\ data.related = <<5000>>
        /\ data.unrelated = <<80000>>
        /\ calculateOptimalThresholds(sel, related, dist)[Embedding3Small] = Some(5100)
        /\ calculateBoxPlotStats(data.unrelated) =
               Some([min |-> 80000, q1 |-> 80000, median |-> 80000, q3 |-> 80000,
                     max |-> 80000, count |-> 1])

\* C23: for every active model the two lists of the plot are an exact partition of
\* the model's entries with a value: the related list holds one element per related
\* pair with a value, the unrelated list one per other pair with a value, nothing of
\* another model; the list handed to calculateBoxPlotStats is one of the two.  The
\* model identifiers hold '-'.
C23_PlotInputPartitionsEntries ==
    /\ PlotExample
    /\ \A model \in Range(activeModelsOf(selectedModels)) :
           LET data == modelData(selectedModels, relatedRows, distanceKeys, distances)[model]
           IN  /\ ListsExactly(data.related, model, RowsOfClass(model, TRUE))
               /\ ListsExactly(data.unrelated, model, RowsOfClass(model, FALSE))
               /\ Len(data.related) + Len(data.unrelated) =
                      Cardinality({ i \in 0..(ThresholdRows - 1) :
                                      HasValue(distances, Key(i, i, model)) })
    /\ lastOp.op = "showBoxPlot" =>
           /\ ListsExactly(plotInput, lastOp.model, RowsOfClass(lastOp.model, lastOp.related))
           /\ plotStats = calculateBoxPlotStats(plotInput)

\* C23 witness: the related box plot of text-embedding-3-small has been drawn from
\* one value while the table holds an unrelated value of that model, a related value
\* of another model that is selected too, and an entry without a value, the entries
\* having been set from the last row upwards.
C23_Witness ==
    /\ lastOp.op = "showBoxPlot"
    /\ showPlot
    /\ distanceKeys # RowOrder(distances)
    /\ lastOp.model = Embedding3Small
    /\ lastOp.related
    /\ Len(plotInput) = 1
    /\ Cardinality(RowsOfClass(Embedding3Small, FALSE)) = 1
    /\ BgeSmallEn \in Range(activeModelsOf(selectedModels))
    /\ RowsOfClass(BgeSmallEn, TRUE) # {}
    /\ \E key \in DOMAIN distances : distances[key] = None

\* C24: within the computation of one slot the steps come in one order: the query
\* embedding is awaited first, the stored embedding second, the distance third and
\* only then; a computation starts at the query step, and a slot gets a value only
\* from the computation of that slot whose distance request has just answered.
C24_StepsInOrder ==
    [][/\ \A r \in 1..MaxRuns :
              /\ EmbeddingResolved(r) =>
                     \/ runs[r].pc = "query" /\ runs'[r].pc = "stored"
                     \/ runs[r].pc = "stored" /\ runs'[r].pc = "distance"
              /\ (r <= Len(runs) /\ r <= Len(runs') /\ runs'[r].todo = runs[r].todo
                      /\ runs'[r].pc = "distance" /\ runs[r].pc # "distance")
                     => runs[r].pc = "stored"
              /\ (r <= Len(runs') /\ (r > Len(runs) \/ runs'[r].todo # runs[r].todo))
                     => runs'[r].pc = "query"
       /\ \A key \in DOMAIN distances' :
              (/\ distances'[key] # None
               /\ (key \notin DOMAIN distances \/ distances[key] # distances'[key]))
                  => \E r \in 1..Len(runs) :
                         /\ runs[r].pc = "distance"
                         /\ ItemKey(Head(runs[r].todo)) = key]_vars

\* C24 witness: the first pair has got its value at the end of its three steps and
\* the computation of the second pair has started, at its query step.
C24_Witness ==
    /\ lastOp.op = "distanceResolved"
    /\ EntryOf(distances, 0, Embedding3Small) # None
    /\ Len(runs) = 1
    /\ Head(runs[1].todo).row = 1
    /\ runs[1].pc = "query"

\* C25: a slot whose loading flag is set gets it cleared, and a generateComparisons
\* run in progress ends (isGenerating is false again), given that every request in
\* flight is eventually answered or fails.
C25_LoadingEnds ==
    /\ \A rowIndex \in 0..(MaxRows - 1), model \in ModelChoices :
           (Key(rowIndex, rowIndex, model) \in DOMAIN loading
                /\ loading[Key(rowIndex, rowIndex, model)])
             ~> (Key(rowIndex, rowIndex, model) \in DOMAIN loading
                    /\ loading[Key(rowIndex, rowIndex, model)] = FALSE)
    /\ isGenerating ~> ~isGenerating

\* C25 witness: a computation has failed, its slot is no longer loading and the
\* generateComparisons run that made it is over.
C25_Witness ==
    /\ lastOp.op = "requestFailed"
    /\ \E key \in DOMAIN loading : TRUE
    /\ \A key \in DOMAIN loading : loading[key] = FALSE
    /\ ~isGenerating
    /\ runs = <<>>

\* C26: in every state the embedding a row of the model table holds was generated
\* with the model the row has selected: the late answer for a model the row had
\* before does not replace it.
C26_EmbeddingOfSelectedModel ==
    \A k \in 1..Len(modelRows) :
        modelRows[k].embedding # None => modelRows[k].embedding[1].model = modelRows[k].model

\* C27: in every state of the row-based table no two rows have the same id.
C27_RowIdsUnique ==
    \A j, k \in 1..Len(calculatorRows) :
        calculatorRows[j].id = calculatorRows[k].id => j = k

\* C28: in every state the comparison table has at least one pair, and as many
\* query texts as stored texts.
C28_AtLeastOneRow ==
    /\ Len(queryTexts) = Len(storedTexts)
    /\ Len(queryTexts) >= 1

\* C29: a text of more than 500 tokens (ceil(length / 4) > 500, that is more than
\* 2000 characters) is answered with an error before any provider is called: no
\* handler is ever suspended at a provider with such a text, and the storage is
\* left as it was; a provider failure is answered with an error and saves
\* nothing; the storage changes only when a provider has answered, by the one
\* embedding of that answer, and a result is sent only of an embedding that is
\* held in the storage.
C29_RejectsLongTextBeforeProvider ==
    /\ [](/\ \A k \in 1..Len(handlers) : handlers[k].text.length <= 4 * TokenLimit
          /\ \A id \in DOMAIN embeddings : embeddings[id].text.length <= 4 * TokenLimit)
    /\ [][/\ \A n \in TextLengths, model \in ServerModels :
                 (PostGenerate(TextOfLength(n), model) /\ n > 4 * TokenLimit)
                     => /\ response' # None
                        /\ response'[1].status >= 400
                        /\ handlers' = handlers
                        /\ embeddings' = embeddings
                        /\ currentId' = currentId
          /\ \A k \in 1..MaxHandlers :
                 ProviderFails(k)
                     => /\ response'[1].status >= 400
                        /\ embeddings' = embeddings
                        /\ currentId' = currentId
          /\ embeddings' # embeddings
                 => \E k \in 1..Len(handlers) :
                        /\ handlers[k].pc = "provider"
                        /\ handlers'[k].pc = "saved"
                        /\ \E id \in DOMAIN embeddings' \ DOMAIN embeddings :
                               /\ DOMAIN embeddings' = DOMAIN embeddings \cup {id}
                               /\ embeddings'[id].embedding = EmbeddingFor(handlers[k].text, handlers[k].model)
                               /\ embeddings'[id].text = handlers[k].text
          /\ \A k \in 1..MaxHandlers :
                 SendResult(k)
                     => /\ response'[1].status = 200
                        /\ embeddings' = embeddings
                        /\ \E id \in DOMAIN embeddings :
                               /\ embeddings[id].text = handlers[k].text
                               /\ embeddings[id].model = handlers[k].model
                               /\ embeddings[id].embedding = response'[1].body[1].embedding]_vars

\* C29 witness: a text of 2001 characters (501 tokens) has just been refused with
\* status 400 while the storage holds the embedding of a text of 2000 characters
\* (500 tokens) and another request waits for its provider.
C29_Witness ==
    /\ lastOp.op = "postGenerate"
    /\ request[1].text.length = 2001
    /\ response # None
    /\ response[1].status = 400
    /\ Len(handlers) = 1
    /\ handlers[1].pc = "provider"
    /\ \E id \in DOMAIN embeddings : embeddings[id].text.length = 2000

\* the ids of the embeddings of a list
IdsOf(list) == { list[k].id : k \in 1..Len(list) }

\* C30: the storage gives the ids 1, 2, 3, ... in the order of the saves, whatever
\* the order in which the suspended requests reach their save: the ids held are
\* 1..currentId - 1, each embedding under its own id; a save adds the embedding
\* under the next id and leaves every other one as it was; getEmbedding(id)
\* returns the embedding held under id (undefined when there is none) and
\* getEmbeddingsByModel(m) returns each embedding of model m once and no other.
C30_StorageIdsSequential ==
    /\ [](/\ DOMAIN embeddings = 1..(currentId - 1)
          /\ \A id \in DOMAIN embeddings : embeddings[id].id = id
          /\ lastOp.op = "getEmbedding" =>
                 IF request[1].id \in DOMAIN embeddings
                 THEN response[1].body = Some(embeddings[request[1].id])
                 ELSE response[1].body = None
          /\ lastOp.op = "getEmbeddingsByModel" =>
                 LET list == response[1].body
                 IN  /\ IdsOf(list) = { id \in DOMAIN embeddings :
                                          embeddings[id].model = request[1].model }
                     /\ Len(list) = Cardinality(IdsOf(list))
                     /\ \A k \in 1..Len(list) : list[k] = embeddings[list[k].id])
    /\ [][\A k \in 1..MaxHandlers :
              ProviderAnswers(k)
                  => /\ currentId' = currentId + 1
                     /\ DOMAIN embeddings' = DOMAIN embeddings \cup {currentId}
                     /\ embeddings'[currentId].text = handlers[k].text
                     /\ embeddings'[currentId].model = handlers[k].model
                     /\ \A id \in DOMAIN embeddings : embeddings'[id] = embeddings[id]]_vars

\* C30 witness: the storage holds three embeddings of two models, saved while other
\* requests were suspended, and getEmbeddingsByModel has just returned some of
\* them but not all.
C30_Witness ==
    /\ lastOp.op = "getEmbeddingsByModel"
    /\ Cardinality(DOMAIN embeddings) = 3
    /\ Len(response[1].body) \in {1, 2}
    /\ \E id \in DOMAIN embeddings : embeddings[id].model # request[1].model

====
